---------------------------- MODULE Spec2Model ----------------------------
(***************************************************************************)
(* A model of the HTTP/1.1 message codec (http.c), of the server's accept  *)
(* loop (server.c) and of the client driver (client.c).                    *)
(*                                                                         *)
(* Byte strings are sequences of one-character strings.  A C string is the *)
(* part of a buffer before its first NUL byte.  Streams are byte strings   *)
(* that the readers consume from the front.                                *)
(***************************************************************************)
EXTENDS Integers, Sequences, FiniteSets, TLC

VARIABLES
    pc,        \* position of the driver that runs the operations
    req,       \* the http_req handed to send_req
    res,       \* the http_res handed to send_res
    env,       \* what the environment decides: faults, errno, the date
    stream,    \* the bytes in the byte stream, written and not yet read
    wire,      \* every byte ever put on the byte stream, read or not
    ret,       \* what the last codec operation returned
    pending_signal,  \* server.c: the signal flag
    conn,      \* server.c: the accepted connection, NoConn when there is none
    served,    \* server.c: number of connections accepted so far
    args,      \* server.c: the parsed command line (doc_root, index)
    socket,    \* server.c: the listening socket, "none", "open" or "closed"
    status,    \* server.c: the exit status of main, NoStatus while it runs
    heap       \* the heap blocks of the message being decoded and their misuse

vars == <<pc, req, res, env, stream, wire, ret, pending_signal, conn, served, args, socket, status, heap>>

-----------------------------------------------------------------------------
(* Bytes and C strings *)

CR == "\r"
LF == "\n"
SP == " "
NUL == "\\0"
CRLF == <<CR, LF>>

Drop(s, n) == SubSeq(s, n + 1, Len(s))
Take(s, n) == SubSeq(s, 1, n)

\* The scan of a string for its first byte in (stop = TRUE) or not in
\* (stop = FALSE) the set chars: the least such index of lo..hi, hi + 1
\* when there is none.  The range is halved so that long lines are scanned
\* in shallow recursion.
RECURSIVE Scan(_, _, _, _, _)
Scan(s, chars, stop, lo, hi) ==
    IF lo > hi THEN lo
    ELSE IF lo = hi THEN (IF (s[lo] \in chars) = stop THEN lo ELSE lo + 1)
    ELSE LET mid == (lo + hi) \div 2
             l == Scan(s, chars, stop, lo, mid)
         IN  IF l <= mid THEN l ELSE Scan(s, chars, stop, mid + 1, hi)

\* strcspn: length of the longest prefix of s with no byte of reject.
strcspn(s, reject) == Scan(s, reject, TRUE, 1, Len(s)) - 1

\* strspn: length of the longest prefix of s made of bytes of accept.
strspn(s, accept) == Scan(s, accept, FALSE, 1, Len(s)) - 1

\* The C string held in a buffer: the bytes before the first NUL.
CStr(b) == Take(b, strcspn(b, {NUL}))

\* strndup(s, n): the first n bytes of the C string s.
strndup(s, n) == Take(s, IF n < Len(s) THEN n ELSE Len(s))

NoToken == [found |-> FALSE, token |-> <<>>, saveptr |-> <<>>]

\* strtok_r(s, " ", &saveptr) on the C string s (the text at str, or at
\* saveptr when str is NULL): leading delimiters are skipped; NULL when
\* nothing is left; else the token runs to the next delimiter, which is
\* overwritten, and saveptr is the text after it.
strtok_r(s, delim) ==
    LET t == Drop(s, strspn(s, delim))
        n == strcspn(t, delim)
    IN  IF t = <<>> THEN NoToken
        ELSE [found |-> TRUE, token |-> Take(t, n),
              saveptr |-> IF n < Len(t) THEN Drop(t, n + 1) ELSE <<>>]

\* A line reader that reads one byte ahead once it has read the blank line.
getline_ahead(s) ==
    LET n == strcspn(s, {LF})
        k == IF n < Len(s) THEN n + 1 ELSE n
        ahead == IF Take(s, k) = CRLF /\ k < Len(s) THEN k + 1 ELSE k
    IN  [ok |-> s # <<>>, line |-> Take(s, k), rest |-> Drop(s, ahead)]

\* getline(&buf, &n, stream): -1 at end of stream, else the bytes up to
\* and including the first LF (or all of them when there is none).
getline(s) ==
    LET n == strcspn(s, {LF})
        k == IF n < Len(s) THEN n + 1 ELSE n
    IN  [ok |-> s # <<>>, line |-> Take(s, k), rest |-> Drop(s, k)]

-----------------------------------------------------------------------------
(* Numbers as text *)

Digits == <<"0", "1", "2", "3", "4", "5", "6", "7", "8", "9">>

DigitVal(c) == CHOOSE d \in 0..9 : Digits[d + 1] = c
IsDigit(c) == \E d \in 1..10 : Digits[d] = c

\* printf("%ld") of a non-negative number.
RECURSIVE FmtNat(_)
FmtNat(n) ==
    IF n < 10 THEN <<Digits[n + 1]>>
    ELSE FmtNat(n \div 10) \o <<Digits[(n % 10) + 1]>>

\* printf("%ld").
FmtLong(n) == IF n < 0 THEN <<"-">> \o FmtNat(0 - n) ELSE FmtNat(n)

-----------------------------------------------------------------------------
(* http.h: methods, headers, requests, responses *)

HTTP_GET == 0
HTTP_PATCH == 8

S_GET == <<"G", "E", "T">>
S_HEAD == <<"H", "E", "A", "D">>
S_POST == <<"P", "O", "S", "T">>
S_PUT == <<"P", "U", "T">>
S_DELETE == <<"D", "E", "L", "E", "T", "E">>
S_CONNECT == <<"C", "O", "N", "N", "E", "C", "T">>
S_OPTIONS == <<"O", "P", "T", "I", "O", "N", "S">>
S_TRACE == <<"T", "R", "A", "C", "E">>
S_PATCH == <<"P", "A", "T", "C", "H">>

\* The array HTTP_METHOD_STRINGS, indexed by the enum http_method.
HTTP_METHOD_STRINGS ==
    [m \in HTTP_GET..HTTP_PATCH |->
        <<S_GET, S_HEAD, S_POST, S_PUT, S_DELETE, S_CONNECT, S_OPTIONS,
          S_TRACE, S_PATCH>>[m + 1]]

S_HTTP11 == <<"H", "T", "T", "P", "/", "1", ".", "1">>
S_CONNECTION_CLOSE ==
    <<"C", "o", "n", "n", "e", "c", "t", "i", "o", "n", ":", SP,
      "c", "l", "o", "s", "e">>
S_CONTENT_LENGTH ==
    <<"C", "o", "n", "t", "e", "n", "t", "-", "L", "e", "n", "g", "t", "h">>
S_DATE == <<"D", "a", "t", "e">>
S_CONNECTION == <<"C", "o", "n", "n", "e", "c", "t", "i", "o", "n">>
S_CLOSE == <<"c", "l", "o", "s", "e">>

http_header(k, v) == [key |-> k, value |-> v]

\* A request or response without a body has body = NULL.
NoBody == [data |-> <<>>, pos |-> -1]

\* Error codes of recv_req and recv_res, and the value of the macro EOF.
EOF == -1
E_FAIL == -1
E_HEAD == -2
E_HEADERS == -3

-----------------------------------------------------------------------------
(* The environment: faults the codec can meet during one call.             *)
(*   errno   the value errno holds when getline fails                      *)
(*   oom     the allocation call (counted from 1) that returns NULL, 0:    *)
(*           none                                                          *)
(*   rdfail  the getline call (counted from 1) that fails on a stream that *)
(*           still holds bytes, 0: none                                    *)
(*   wfail   the output call on the stream (counted from 1) that fails, 0: *)
(*           none                                                          *)
(*   bodyerr whether reading the body sets its error indicator             *)
(*   tmnull  whether gmtime returns NULL                                   *)
(*   date    the text strftime produces                                    *)

S_DATE_TEXT == <<"S", "u", "n", ",", SP, "0", "1">>

NoFault ==
    [errno |-> 0, oom |-> 0, rdfail |-> 0, wfail |-> 0, bodyerr |-> FALSE,
     tmnull |-> FALSE, date |-> S_DATE_TEXT]

FaultFree(e) ==
    /\ e.oom = 0 /\ e.rdfail = 0 /\ e.wfail = 0
    /\ ~e.bodyerr /\ ~e.tmnull

-----------------------------------------------------------------------------
(* http.c: decoding *)

\* (i & (i - 1)) == 0 for i >= 1: i is a power of two.
RECURSIVE IsPow2(_)
IsPow2(i) == i = 1 \/ (i > 1 /\ i % 2 = 0 /\ IsPow2(i \div 2))

GetlineFails(s, e, g) == s = <<>> \/ e.rdfail = g + 1

\* What extract_header returns: NULL (ok = FALSE) with *err set, or the
\* header array with *header_ln = Len(header); rest is the stream after it.
HeaderFail(code, s) == [ok |-> FALSE, header |-> <<>>, err |-> code, rest |-> s]

\* header_value skipping one optional space instead of all of them.
header_value_one(buf, delimer) ==
    LET after == Drop(buf, delimer + 1)
        value == IF after # <<>> /\ Head(after) = SP THEN Tail(after) ELSE after
    IN  strndup(value, strcspn(value, {CR, LF}))

\* The value of the header line in buf, whose first colon is at delimer:
\* the text after the colon and the spaces that follow it, up to the first
\* CR or LF.
header_value(buf, delimer) ==
    LET after == Drop(buf, delimer + 1)
        value == Drop(after, strspn(after, {SP}))
    IN  strndup(value, strcspn(value, {CR, LF}))

\* The loop of extract_header at index i, after a allocation calls and g
\* getline calls, with header[0..i-1] stored.
RECURSIVE extract_loop(_, _, _, _, _, _)
extract_loop(s, e, a, g, i, header) ==
    LET l == getline(s)
        buf == CStr(l.line)
        grow == i >= 2 /\ IsPow2(i)
        a1 == IF grow THEN a + 1 ELSE a
        delimer == strcspn(buf, {":"})
    IN  IF GetlineFails(s, e, g)
        THEN HeaderFail(IF e.errno = EOF THEN E_HEADERS ELSE E_FAIL, s)
        ELSE IF buf = CRLF
        THEN [ok |-> TRUE, header |-> header, err |-> 0, rest |-> l.rest]
        ELSE IF grow /\ e.oom = a1 THEN HeaderFail(E_FAIL, l.rest)
        ELSE IF delimer >= Len(buf) THEN HeaderFail(E_HEADERS, l.rest)
        ELSE IF e.oom = a1 + 1 \/ e.oom = a1 + 2 THEN HeaderFail(E_FAIL, l.rest)
        ELSE extract_loop(l.rest, e, a1 + 2, g + 1, i + 1,
                 Append(header,
                     http_header(strndup(buf, delimer), header_value(buf, delimer))))

\* extract_header(stream, buf, &line_n, &header_ln, &err), called after a
\* allocation calls and g getline calls.
extract_header(s, e, a, g) ==
    IF e.oom = a + 1 THEN HeaderFail(E_FAIL, s)
    ELSE extract_loop(s, e, a + 1, g, 0, <<>>)

\* MethodOf with the assignment of the index lost: any known method is GET.
MethodOf_first(token) ==
    IF \E m \in DOMAIN HTTP_METHOD_STRINGS : HTTP_METHOD_STRINGS[m] = token
    THEN HTTP_GET ELSE -1

\* The index of token in HTTP_METHOD_STRINGS, -1 when it is not there.
MethodOf(token) ==
    IF \E m \in DOMAIN HTTP_METHOD_STRINGS : HTTP_METHOD_STRINGS[m] = token
    THEN CHOOSE m \in DOMAIN HTTP_METHOD_STRINGS :
             /\ HTTP_METHOD_STRINGS[m] = token
             /\ \A k \in DOMAIN HTTP_METHOD_STRINGS :
                    HTTP_METHOD_STRINGS[k] = token => m <= k
    ELSE -1

\* What recv_req leaves: its return value, the fields of *req it has
\* assigned, and the stream after the bytes it consumed.
ReqResult(code, m, p, h, s) ==
    [ret |-> code, method |-> m, path |-> p, header |-> h, rest |-> s]

recv_req(s, e) ==
    LET l == getline(s)
        buf == CStr(l.line)
        t1 == strtok_r(buf, {SP})
        m == MethodOf(t1.token)
        t2 == strtok_r(t1.saveptr, {SP})
        t3 == strtok_r(t2.saveptr, {SP})
        h == extract_header(l.rest, e, 1, 1)
    IN  IF GetlineFails(s, e, 0)
        THEN ReqResult(IF e.errno = EOF THEN E_HEAD ELSE E_FAIL, -1, <<>>, <<>>, s)
        ELSE IF ~t1.found THEN ReqResult(E_HEAD, -1, <<>>, <<>>, l.rest)
        ELSE IF m = -1 THEN ReqResult(E_HEAD, -1, <<>>, <<>>, l.rest)
        ELSE IF ~t2.found \/ Head(t2.token) # "/"
        THEN ReqResult(E_HEAD, m, <<>>, <<>>, l.rest)
        ELSE IF e.oom = 1 THEN ReqResult(E_FAIL, m, <<>>, <<>>, l.rest)
        ELSE IF ~t3.found \/ t3.token # S_HTTP11 \o CRLF
        THEN ReqResult(E_HEAD, m, t2.token, <<>>, l.rest)
        ELSE IF ~h.ok THEN ReqResult(h.err, m, t2.token, <<>>, h.rest)
        ELSE ReqResult(0, m, t2.token, h.header, h.rest)

\* The bytes isspace() accepts among those of the model.
Space == {SP, CR, LF, "\t"}

\* The value of a string of decimal digits (inputs stay far below LONG_MAX,
\* where strtol would clamp).
RECURSIVE DigitsVal(_, _)
DigitsVal(s, acc) ==
    IF s = <<>> THEN acc ELSE DigitsVal(Tail(s), 10 * acc + DigitVal(Head(s)))

\* strtol(s, &endptr, 10): white space, an optional sign, digits.  With no
\* digit the value is 0 and endptr is s itself.
strtol(s) ==
    LET t == Drop(s, strspn(s, Space))
        signed == t # <<>> /\ Head(t) \in {"+", "-"}
        u == IF signed THEN Tail(t) ELSE t
        n == strspn(u, {Digits[d] : d \in 1..10})
        v == DigitsVal(Take(u, n), 0)
    IN  IF n = 0 THEN [value |-> 0, endptr |-> s]
        ELSE [value |-> IF signed /\ Head(t) = "-" THEN 0 - v ELSE v,
              endptr |-> Drop(u, n)]

\* A char * that is NULL: no C string holds a NUL byte.
NULLPTR == <<NUL>>

\* What recv_res leaves: its return value, the fields of *res it has
\* assigned, and the stream after the bytes it consumed.
ResResult(r, c, d, h, s) ==
    [ret |-> r, code |-> c, description |-> d, header |-> h, rest |-> s]

recv_res(s, e) ==
    LET l == getline(s)
        buf == CStr(l.line)
        t1 == strtok_r(buf, {SP})
        t2 == strtok_r(t1.saveptr, {SP})
        n == strtol(t2.token)
        saveptr == t2.saveptr
        description ==
            IF saveptr # <<>> THEN strndup(saveptr, strcspn(saveptr, {CR, LF}))
            ELSE IF e.oom = 1 THEN NULLPTR ELSE <<>>
        h == extract_header(l.rest, e, 1, 1)
    IN  IF GetlineFails(s, e, 0)
        THEN ResResult(IF e.errno = EOF THEN E_HEAD ELSE E_FAIL, 0, <<>>, <<>>, s)
        ELSE IF ~t1.found \/ t1.token # S_HTTP11
        THEN ResResult(E_HEAD, 0, <<>>, <<>>, l.rest)
        ELSE IF ~t2.found THEN ResResult(E_HEAD, 0, <<>>, <<>>, l.rest)
        ELSE IF n.endptr # <<>> THEN ResResult(E_HEAD, n.value, <<>>, <<>>, l.rest)
        ELSE IF saveptr # <<>> /\ e.oom = 1
        THEN ResResult(E_FAIL, n.value, <<>>, <<>>, l.rest)
        ELSE IF ~h.ok THEN ResResult(h.err, n.value, description, <<>>, h.rest)
        ELSE ResResult(0, n.value, description, h.header, h.rest)

-----------------------------------------------------------------------------
(* http.c: encoding *)

Min(a, b) == IF a < b THEN a ELSE b

\* sizeof(buffer) in send_res, and the item size send_req passes to fread.
BufSize == 1024

\* fread(buffer, size, nmemb, f): the bytes read into buffer, the number
\* of complete items read (the return value), and f advanced.
fread(f, size, nmemb) ==
    LET avail == Len(f.data) - f.pos
        bytes == Min(size * nmemb, avail)
    IN  [buffer |-> SubSeq(f.data, f.pos + 1, f.pos + bytes),
         n |-> IF size = 0 THEN 0 ELSE bytes \div size,
         f |-> [f EXCEPT !.pos = f.pos + bytes]]

\* fwrite(buffer, size, nmemb, stream) when the write succeeds: the bytes
\* written and the number of items written (the return value).
fwrite(buffer, size, nmemb) ==
    [out |-> Take(buffer, size * nmemb),
     n |-> IF size = 0 THEN 0 ELSE nmemb]

\* ftell, fseek to the end, ftell, fseek back: file_ln - old_pos.
RemainingLen(f) == Len(f.data) - f.pos

\* "%s: %s\r\n"
HeaderLine(h) == h.key \o <<":", SP>> \o h.value \o CRLF

RECURSIVE HeaderLines(_)
HeaderLines(hs) ==
    IF hs = <<>> THEN <<>> ELSE HeaderLine(Head(hs)) \o HeaderLines(Tail(hs))

ContentLengthLine(n) == S_CONTENT_LENGTH \o <<":", SP>> \o FmtLong(n) \o CRLF

\* PathArg stripping every leading slash instead of one.
PathArg_all(path) == Drop(path, strspn(path, {"/"}))

\* The path argument of the request line's "/%s".
PathArg(path) == IF path # <<>> /\ Head(path) = "/" THEN Tail(path) ELSE path

\* "%s /%s HTTP/1.1\r\n"
RequestLine(r) ==
    HTTP_METHOD_STRINGS[r.method] \o <<SP, "/">> \o PathArg(r.path)
        \o <<SP>> \o S_HTTP11 \o CRLF

\* What a send leaves: its return value, the bytes it handed to the stream,
\* and the body handle after the reads.
SendResult(code, o, b) == [ret |-> code, out |-> o, body |-> b]

\* The copy of the body in send_req: one fread of one item of 1024 bytes,
\* one fwrite of one item of read_ln bytes, and the loop ends because
\* read_ln, a number of items, is below 1024.  w is the number of the
\* fwrite among the output calls.
send_req_body(b, e, w, out) ==
    LET rd == fread(b, BufSize, 1)
        wr == fwrite(rd.buffer, rd.n, 1)
        write_ln == IF e.wfail = w THEN 0 ELSE wr.n
        o == IF e.wfail = w THEN out ELSE out \o wr.out
    IN  IF e.bodyerr THEN SendResult(-1, out, rd.f)
        ELSE IF write_ln < rd.n THEN SendResult(-1, o, rd.f)
        ELSE IF e.wfail = w + 1 THEN SendResult(-1, o, rd.f)
        ELSE SendResult(0, o, rd.f)

send_req(r, e) ==
    LET n == Len(r.header)
        hasBody == r.body # NoBody
        line == RequestLine(r)
        c == IF hasBody THEN n + 3 ELSE n + 2
        cl == IF hasBody /\ e.wfail # n + 2
              THEN ContentLengthLine(RemainingLen(r.body)) ELSE <<>>
        head == line \o HeaderLines(r.header) \o cl
        all == head \o S_CONNECTION_CLOSE \o CRLF \o CRLF
    IN  IF e.wfail = 1 THEN SendResult(-1, <<>>, r.body)
        ELSE IF e.wfail \in 2..(n + 1)
        THEN SendResult(-1, line \o HeaderLines(Take(r.header, e.wfail - 2)), r.body)
        ELSE IF e.wfail = c THEN SendResult(-1, head, r.body)
        ELSE IF hasBody THEN send_req_body(r.body, e, c + 1, all)
        ELSE IF e.wfail = c + 1 THEN SendResult(-1, all, r.body)
        ELSE SendResult(0, all, r.body)

\* "HTTP/1.1 %ld %s\r\n"
StatusLine(r) ==
    S_HTTP11 \o <<SP>> \o FmtLong(r.code) \o <<SP>> \o r.description \o CRLF

\* "Date: %s\r\nContent-Length: %ld\r\nConnection: close\r\n\r\n"
ResTrailer(date, length) ==
    S_DATE \o <<":", SP>> \o date \o CRLF \o ContentLengthLine(length)
        \o S_CONNECTION_CLOSE \o CRLF \o CRLF

\* LastChunk with <= for <: a full buffer ends the copy.
LastChunk_le(read_ln) == read_ln <= BufSize

\* Whether the copy loop of send_res ends after a read of read_ln bytes.
LastChunk(read_ln) == read_ln < BufSize

\* The copy of the body in send_res: fread of up to sizeof(buffer) bytes,
\* fwrite of the bytes read, until a read comes short.  w is the number of
\* the next fwrite among the output calls.
RECURSIVE send_res_body(_, _, _, _)
send_res_body(b, e, w, out) ==
    LET rd == fread(b, 1, BufSize)
        wr == fwrite(rd.buffer, 1, rd.n)
        write_ln == IF e.wfail = w THEN 0 ELSE wr.n
        o == IF e.wfail = w THEN out ELSE out \o wr.out
    IN  IF e.bodyerr THEN SendResult(-1, out, rd.f)
        ELSE IF write_ln < rd.n THEN SendResult(-1, o, rd.f)
        ELSE IF ~LastChunk(rd.n) THEN send_res_body(rd.f, e, w + 1, o)
        ELSE IF e.wfail = w + 1 THEN SendResult(-1, o, rd.f)
        ELSE SendResult(0, o, rd.f)

send_res(r, e) ==
    LET n == Len(r.header)
        hasBody == r.body # NoBody
        line == StatusLine(r)
        length == IF hasBody THEN RemainingLen(r.body) ELSE 0
        head == line \o HeaderLines(r.header)
        all == head \o ResTrailer(e.date, length)
    IN  IF e.wfail = 1 THEN SendResult(-1, <<>>, r.body)
        ELSE IF e.wfail \in 2..(n + 1)
        THEN SendResult(-1, line \o HeaderLines(Take(r.header, e.wfail - 2)), r.body)
        ELSE IF e.tmnull THEN SendResult(-1, head, r.body)
        ELSE IF e.wfail = n + 2 THEN SendResult(-1, head, r.body)
        ELSE IF hasBody THEN send_res_body(r.body, e, n + 3, all)
        ELSE IF e.wfail = n + 3 THEN SendResult(-1, all, r.body)
        ELSE SendResult(0, all, r.body)

-----------------------------------------------------------------------------
(* http.c: the heap blocks of recv_req and recv_res                         *)
(*   live    the blocks allocated and not freed                            *)
(*   bad     the calls of free on a block that is not live                 *)
(*   bgen    how often getline has moved the line buffer; the block of the *)
(*           buffer is <<"buf", bgen>>                                     *)
(*   cap     the size of the line buffer, the value of line_n              *)
(*   hgen    how often realloc has moved the header array                  *)
(*   slots   the number of http_header slots of the header array           *)
(*   stored  the number of stores header[i] = ...                          *)
(*   oob     the indices i of the stores made with i >= slots              *)

Max(a, b) == IF a < b THEN b ELSE a

Block(kind, n) == <<kind, n>>

NoHeap ==
    [live |-> {}, bad |-> {}, bgen |-> 0, cap |-> 0, hgen |-> 0, slots |-> 0,
     stored |-> 0, oob |-> {}]

Malloc(h, b) == [h EXCEPT !.live = h.live \cup {b}]

\* free(b): of a live block, or of one that is not allocated any more.
Free(h, b) ==
    IF b \in h.live THEN [h EXCEPT !.live = h.live \ {b}]
    ELSE [h EXCEPT !.bad = h.bad \cup {b}]

\* The size of the buffer getline allocates for a NULL *lineptr.
GetlineMin == 120

\* getline(&buf, &line_n, stream) reading a line of len bytes into the
\* buffer <<"buf", bgen>> of size cap: a line that does not fit with its
\* terminator makes getline realloc the buffer, which moves it or not.
GetlineGrow(h, len, moved) ==
    IF len + 1 <= h.cap THEN h
    ELSE IF ~moved THEN [h EXCEPT !.cap = Max(2 * h.cap, len + 1)]
    ELSE [h EXCEPT !.cap = Max(2 * h.cap, len + 1),
                   !.bgen = h.bgen + 1,
                   !.live = (h.live \ {Block("buf", h.bgen)})
                                \cup {Block("buf", h.bgen + 1)}]

\* The first getline of recv_req and recv_res, on buf = NULL.
GetlineFirst(len) ==
    [NoHeap EXCEPT !.live = {Block("buf", 0)}, !.cap = Max(GetlineMin, len + 1)]

\* A realloc of the header array to i slots instead of 2 * i.
ReallocHeader_i(h, i, moved) == [h EXCEPT !.slots = i]

\* realloc(header, 2 * i * sizeof(http_header)) that succeeds.
ReallocHeader(h, i, moved) ==
    IF ~moved THEN [h EXCEPT !.slots = 2 * i]
    ELSE [h EXCEPT !.slots = 2 * i,
                   !.hgen = h.hgen + 1,
                   !.live = (h.live \ {Block("header", h.hgen)})
                                \cup {Block("header", h.hgen + 1)}]

\* header[i] = (http_header) { .key = key, .value = value }.
StoreHeader(h, i) ==
    [h EXCEPT !.stored = h.stored + 1,
              !.oob = IF i < h.slots THEN h.oob ELSE h.oob \cup {i}]

\* What extract_header does to the heap: whether it returns the array, and
\* the heap it leaves.
HeapResult(ok, h) == [ok |-> ok, heap |-> h]

\* The loop of extract_header at index i, as extract_loop, on the heap h.
RECURSIVE extract_loop_heap(_, _, _, _, _, _, _)
extract_loop_heap(h, s, e, a, g, i, moved) ==
    LET l == getline(s)
        buf == CStr(l.line)
        grow == i >= 2 /\ IsPow2(i)
        a1 == IF grow THEN a + 1 ELSE a
        delimer == strcspn(buf, {":"})
        h1 == GetlineGrow(h, Len(l.line), moved)
        h2 == IF grow THEN ReallocHeader(h1, i, moved) ELSE h1
        key == Block("key", i)
        value == Block("value", i)
    IN  IF GetlineFails(s, e, g)
        THEN HeapResult(FALSE, Free(h, Block("header", h.hgen)))
        ELSE IF buf = CRLF THEN HeapResult(TRUE, h1)
        ELSE IF grow /\ e.oom = a1
        THEN HeapResult(FALSE, Free(h1, Block("header", h1.hgen)))
        ELSE IF delimer >= Len(buf)
        THEN HeapResult(FALSE, Free(h2, Block("header", h2.hgen)))
        ELSE IF e.oom = a1 + 1
        THEN HeapResult(FALSE, Free(h2, Block("header", h2.hgen)))
        ELSE IF e.oom = a1 + 2
        THEN HeapResult(FALSE,
                 Free(Free(Malloc(h2, key), Block("header", h2.hgen)), key))
        ELSE extract_loop_heap(
                 StoreHeader(Malloc(Malloc(h2, key), value), i),
                 l.rest, e, a1 + 2, g + 1, i + 1, moved)

\* extract_header on the heap h, as extract_header.
extract_header_heap(h, s, e, a, g, moved) ==
    IF e.oom = a + 1 THEN HeapResult(FALSE, h)
    ELSE extract_loop_heap(
             [Malloc(h, Block("header", 0)) EXCEPT !.slots = 2],
             s, e, a + 1, g, 0, moved)

\* The caller of extract_header frees the line buffer through the address
\* it passed, <<"buf", 0>>: extract_header got the pointer by value.
FreeBuf(h) == Free(h, Block("buf", 0))

\* The end of recv_req after extract_header has returned x: free(req->path)
\* when it failed, free(buf) in both cases.
recv_req_end(x) ==
    IF x.ok THEN FreeBuf(x.heap)
    ELSE FreeBuf(Free(x.heap, Block("path", 0)))

\* The heap that recv_req(s) leaves in the environment e.
recv_req_heap(s, e, moved) ==
    LET l == getline(s)
        buf == CStr(l.line)
        t1 == strtok_r(buf, {SP})
        m == MethodOf(t1.token)
        t2 == strtok_r(t1.saveptr, {SP})
        t3 == strtok_r(t2.saveptr, {SP})
        h0 == GetlineFirst(Len(l.line))
        h1 == Malloc(h0, Block("path", 0))
    IN  IF GetlineFails(s, e, 0) THEN FreeBuf(GetlineFirst(0))
        ELSE IF ~t1.found THEN FreeBuf(h0)
        ELSE IF m = -1 THEN FreeBuf(h0)
        ELSE IF ~t2.found \/ Head(t2.token) # "/" THEN FreeBuf(h0)
        ELSE IF e.oom = 1 THEN FreeBuf(h0)
        ELSE IF ~t3.found \/ t3.token # S_HTTP11 \o CRLF
        THEN FreeBuf(Free(h1, Block("path", 0)))
        ELSE recv_req_end(extract_header_heap(h1, l.rest, e, 1, 1, moved))

\* The end of recv_res after extract_header has returned x.  The
\* description is NULL when the unchecked strdup("") failed.
recv_res_end(x, described) ==
    IF x.ok THEN FreeBuf(x.heap)
    ELSE IF described THEN FreeBuf(Free(x.heap, Block("description", 0)))
    ELSE FreeBuf(x.heap)

\* The heap that recv_res(s) leaves in the environment e.
recv_res_heap(s, e, moved) ==
    LET l == getline(s)
        buf == CStr(l.line)
        t1 == strtok_r(buf, {SP})
        t2 == strtok_r(t1.saveptr, {SP})
        n == strtol(t2.token)
        saveptr == t2.saveptr
        h0 == GetlineFirst(Len(l.line))
        described == saveptr # <<>> \/ e.oom # 1
        h1 == IF described THEN Malloc(h0, Block("description", 0)) ELSE h0
    IN  IF GetlineFails(s, e, 0) THEN FreeBuf(GetlineFirst(0))
        ELSE IF ~t1.found \/ t1.token # S_HTTP11 THEN FreeBuf(h0)
        ELSE IF ~t2.found THEN FreeBuf(h0)
        ELSE IF n.endptr # <<>> THEN FreeBuf(h0)
        ELSE IF saveptr # <<>> /\ e.oom = 1 THEN FreeBuf(h0)
        ELSE recv_res_end(extract_header_heap(h1, l.rest, e, 1, 1, moved),
                          described)

\* free_http_req(&req) and free_http_res(&res): the value and the key of
\* each of the header_ln entries, the array, the path or description.
RECURSIVE free_headers(_, _, _)
free_headers(h, i, header_ln) ==
    IF i >= header_ln THEN Free(h, Block("header", h.hgen))
    ELSE free_headers(Free(Free(h, Block("value", i)), Block("key", i)),
                      i + 1, header_ln)

free_http_req(h, header_ln) ==
    Free(free_headers(h, 0, header_ln), Block("path", 0))

free_http_res(h, header_ln) ==
    Free(free_headers(h, 0, header_ln), Block("description", 0))

-----------------------------------------------------------------------------
(* Bounds and input domains *)

MaxPathLen == 2      \* paths: every string over PathChars up to this length
MaxHeaders == 2      \* headers per message
MaxChunks == 1       \* body lengths around k * BufSize for k up to this
MaxFault == 6        \* the number of the call a fault hits

\* errno.h values used by the code; 0: errno was never set.
ENOENT == 2
EINTR == 4
EACCES == 13
EIO == 5
Errnos == {0, ENOENT, EINTR, EACCES, EIO}

RECURSIVE Strings(_, _)
Strings(chars, n) ==
    IF n = 0 THEN {<<>>}
    ELSE LET shorter == Strings(chars, n - 1)
         IN  shorter \cup {Append(w, c) : w \in shorter, c \in chars}

RECURSIVE SeqsUpTo(_, _)
SeqsUpTo(S, n) ==
    IF n = 0 THEN {<<>>}
    ELSE LET shorter == SeqsUpTo(S, n - 1)
         IN  shorter \cup {Append(w, x) : w \in shorter, x \in S}

PathChars == {"/", "a", SP, CR, LF}
Paths ==
    Strings(PathChars, MaxPathLen)
        \cup {<<"a", "/", "b">>, <<"/", "a", "/", "b">>,
              <<"/", "/", "a", "/", "b">>}

Keys == {<<"k">>, <<>>, <<"k", ":">>, <<"k", SP>>}
Values == {<<"v">>, <<>>, <<SP, "v">>, <<"v", SP, "w">>}
HeaderPool == {http_header(k, v) : k \in Keys, v \in Values}
HeaderSeqs == SeqsUpTo(HeaderPool, MaxHeaders)

\* A body of n bytes.
Data(n) == [i \in 1..n |-> <<"x", "y", "z">>[(i % 3) + 1]]
BodyLens ==
    {0, 1, 3} \cup {k * BufSize + d : k \in 1..MaxChunks, d \in {-1, 0, 1}}
Bodies ==
    {[data |-> Data(n), pos |-> p] : n \in BodyLens, p \in {0, 2}}
        \ {[data |-> Data(n), pos |-> 2] : n \in {0, 1}}

Faults ==
    {NoFault, [NoFault EXCEPT !.bodyerr = TRUE], [NoFault EXCEPT !.tmnull = TRUE]}
        \cup {[NoFault EXCEPT !.errno = x] : x \in Errnos}
        \cup {[NoFault EXCEPT !.oom = k] : k \in 1..MaxFault}
        \cup {[NoFault EXCEPT !.rdfail = k, !.errno = x] :
                 k \in 1..MaxFault, x \in {EIO, EINTR}}
        \cup {[NoFault EXCEPT !.wfail = k] : k \in 1..MaxFault}

NoReq == [method |-> HTTP_GET, path |-> <<>>, header |-> <<>>, body |-> NoBody]
NoRes == [code |-> 0, description |-> <<>>, header |-> <<>>, body |-> NoBody]
NoRet == [ret |-> 0]
NoConn == [open |-> FALSE, sent |-> <<>>, opened |-> <<>>, log |-> <<>>]
NoArgs == [doc_root |-> <<>>, index |-> <<>>]
NoStatus == "running"

\* The requests the encoder is given.
Requests ==
    [method : DOMAIN HTTP_METHOD_STRINGS, path : Paths, header : {<<>>},
     body : {NoBody}]
    \cup [method : {HTTP_GET}, path : {<<"/", "a">>}, header : HeaderSeqs,
          body : {NoBody}]

FaultyRequests ==
    [method : {HTTP_GET, HTTP_PATCH}, path : {<<"/", "a">>},
     header : SeqsUpTo({http_header(<<"k">>, <<"v">>)}, 1),
     body : Bodies \cup {NoBody}]

-----------------------------------------------------------------------------
(* The request exchange: send_req writes the stream, recv_req reads it *)

ServerIdle ==
    /\ pending_signal = 0 /\ conn = NoConn /\ served = 0
    /\ args = NoArgs /\ socket = "none" /\ status = NoStatus
    /\ heap = NoHeap

Init ==
    /\ pc = "send_req"
    /\ \/ req \in Requests /\ env = NoFault
       \/ req \in FaultyRequests /\ env \in Faults
    /\ res = NoRes
    /\ stream = <<>> /\ wire = <<>>
    /\ ret = NoRet
    /\ ServerIdle

SendReq ==
    /\ pc = "send_req"
    /\ LET r == send_req(req, env)
       IN  /\ ret' = r
           /\ stream' = stream \o r.out
           /\ wire' = wire \o r.out
    /\ pc' = "recv_req"
    /\ UNCHANGED <<req, res, env, pending_signal, conn, served, args, socket, status, heap>>

RecvReq ==
    /\ pc = "recv_req"
    /\ LET r == recv_req(stream, env)
       IN  /\ ret' = r
           /\ stream' = r.rest
    /\ \E moved \in BOOLEAN : heap' = recv_req_heap(stream, env, moved)
    /\ pc' = "done"
    /\ UNCHANGED <<req, res, env, wire, pending_signal, conn, served, args, socket, status>>

Next == SendReq \/ RecvReq

Spec == Init /\ [][Next]_vars

-----------------------------------------------------------------------------
(* Properties of the request exchange *)

Has(s, chars) == \E i \in 1..Len(s) : s[i] \in chars

StartsWith(s, p) == Len(p) <= Len(s) /\ Take(s, Len(p)) = p

NoCRLFHeaders(hs) ==
    \A i \in 1..Len(hs) : ~Has(hs[i].key, {CR, LF}) /\ ~Has(hs[i].value, {CR, LF})

\* The bytes of a body from its read position to its end.
RemainingBytes(b) == SubSeq(b.data, b.pos + 1, Len(b.data))

\* The headers send_req adds after the caller's.
AddedHeaders(r) ==
    (IF r.body # NoBody
     THEN <<http_header(S_CONTENT_LENGTH, FmtLong(Len(RemainingBytes(r.body))))>>
     ELSE <<>>)
        \o <<http_header(S_CONNECTION, S_CLOSE)>>

RoundTrippable(r) ==
    /\ StartsWith(r.path, <<"/">>)
    /\ ~Has(r.path, {SP, LF})
    /\ NoCRLFHeaders(r.header)
    /\ \A i \in 1..Len(r.header) :
           /\ ~Has(r.header[i].key, {":"})
           /\ ~StartsWith(r.header[i].value, <<SP>>)

LeadingSlashes(path) == strspn(path, {"/"})

\* The first line send_req wrote, when the method and target are as given.
LineIs(out, m, target) ==
    StartsWith(out, HTTP_METHOD_STRINGS[m] \o <<SP>> \o target \o <<SP>>
                        \o S_HTTP11 \o CRLF)

\* C8 as stated: the target of the request line starts with exactly one
\* "/", however many leading slashes the path has.
C8_OneSlashAsStated ==
    (pc = "recv_req" /\ env.wfail = 0)
    => LineIs(ret.out, req.method,
              <<"/">> \o Drop(req.path, LeadingSlashes(req.path)))

\* C8, amended: the target is the path itself when the path starts with a
\* slash, and "/" followed by the path when it does not; so a path with no
\* or one leading slash gives a target with exactly one, and a path with
\* several keeps them all.
C8_SlashForced ==
    (pc = "recv_req" /\ env.wfail = 0)
    => /\ LineIs(ret.out, req.method,
                 IF LeadingSlashes(req.path) = 0 THEN <<"/">> \o req.path
                 ELSE req.path)
       /\ LeadingSlashes(req.path) <= 1 =>
              LineIs(ret.out, req.method,
                     <<"/">> \o Drop(req.path, LeadingSlashes(req.path)))

C8_Witness ==
    /\ pc = "recv_req" /\ env.wfail = 0
    /\ req.path = <<"a", "/", "b">>
    /\ LineIs(ret.out, req.method, <<"/", "a", "/", "b">>)

\* C9: with a body attached, send_req writes "Content-Length: n" for the n
\* bytes left in the body and, after the blank line, those n bytes.
C9_BodyCopied ==
    (pc = "recv_req" /\ FaultFree(env) /\ req.body # NoBody)
    => /\ ret.ret = 0
       /\ ret.out = RequestLine(req) \o HeaderLines(req.header)
                      \o ContentLengthLine(Len(RemainingBytes(req.body)))
                      \o S_CONNECTION_CLOSE \o CRLF \o CRLF
                      \o RemainingBytes(req.body)

-----------------------------------------------------------------------------
(* The response exchange: send_res writes the stream, recv_res reads it *)

S_OK == <<"O", "K">>
S_NOT_FOUND == <<"N", "o", "t", SP, "F", "o", "u", "n", "d">>
S_CONTENT_TYPE == <<"C", "o", "n", "t", "e", "n", "t", "-", "T", "y", "p", "e">>
S_TEXT_HTML == <<"t", "e", "x", "t", "/", "h", "t", "m", "l">>

Responses ==
    [code : {200, 404}, description : {S_OK, S_NOT_FOUND, <<>>},
     header : SeqsUpTo({http_header(S_CONTENT_TYPE, S_TEXT_HTML)}, 1),
     body : Bodies \cup {NoBody}]

FaultyResponses ==
    [code : {200}, description : {S_OK},
     header : SeqsUpTo({http_header(S_CONTENT_TYPE, S_TEXT_HTML)}, 1),
     body : {NoBody} \cup {[data |-> Data(n), pos |-> 0] : n \in BodyLens}]

InitRes ==
    /\ pc = "send_res"
    /\ \/ res \in Responses /\ env = NoFault
       \/ res \in FaultyResponses /\ env \in Faults
    /\ req = NoReq
    /\ stream = <<>> /\ wire = <<>>
    /\ ret = NoRet
    /\ ServerIdle

SendRes ==
    /\ pc = "send_res"
    /\ LET r == send_res(res, env)
       IN  /\ ret' = r
           /\ stream' = stream \o r.out
           /\ wire' = wire \o r.out
    /\ pc' = "recv_res"
    /\ UNCHANGED <<req, res, env, pending_signal, conn, served, args, socket, status, heap>>

RecvRes ==
    /\ pc = "recv_res"
    /\ LET r == recv_res(stream, env)
       IN  /\ ret' = r
           /\ stream' = r.rest
    /\ \E moved \in BOOLEAN : heap' = recv_res_heap(stream, env, moved)
    /\ pc' = "done"
    /\ UNCHANGED <<req, res, env, wire, pending_signal, conn, served, args, socket, status>>

NextRes == SendRes \/ RecvRes

SpecRes == InitRes /\ [][NextRes]_vars

\* The number of body bytes send_res has to send: 0 without a body.
BodyLength(r) == IF r.body = NoBody THEN 0 ELSE Len(RemainingBytes(r.body))

BodyBytes(r) == IF r.body = NoBody THEN <<>> ELSE RemainingBytes(r.body)

\* C7: send_res writes the status line, the caller's headers, Date,
\* "Content-Length: N" for the N bytes left in the body (0 without a body),
\* Connection: close, the blank line, and then exactly those N bytes.
C7_ContentLength ==
    (pc = "recv_res" /\ FaultFree(env))
    => /\ ret.ret = 0
       /\ ret.out = StatusLine(res) \o HeaderLines(res.header)
                      \o S_DATE \o <<":", SP>> \o env.date \o CRLF
                      \o ContentLengthLine(BodyLength(res))
                      \o S_CONNECTION_CLOSE \o CRLF \o CRLF
                      \o BodyBytes(res)

C7_Witness ==
    /\ pc = "recv_res" /\ FaultFree(env)
    /\ res.body # NoBody /\ res.body.pos = 0
    /\ BodyLength(res) = BufSize
    /\ ret.ret = 0
    /\ Drop(ret.out, Len(ret.out) - BufSize) = RemainingBytes(res.body)

-----------------------------------------------------------------------------
(* Decoding of arbitrary streams: recv_req and recv_res on raw bytes *)

MaxLines == 2        \* header lines in a raw stream before its ending

RECURSIVE Concat(_)
Concat(ss) == IF ss = <<>> THEN <<>> ELSE Head(ss) \o Concat(Tail(ss))

S_HTTP10 == <<"H", "T", "T", "P", "/", "1", ".", "0">>

Seps == {<<>>, <<SP>>, <<SP, SP>>}
Eols == {CRLF, <<LF>>, <<>>, <<NUL>> \o CRLF}

\* Start lines of requests, well-formed and not: every combination of the
\* parts, for every method token with the other parts as they should be and
\* for two method tokens with the other parts varied.
MethodTokens ==
    {HTTP_METHOD_STRINGS[m] : m \in DOMAIN HTTP_METHOD_STRINGS}
        \cup {<<"g", "e", "t">>, <<"G", "E">>, <<"G", "E", "T", "S">>, <<>>}
PathTokens == {<<"/">>, <<"/", "a">>, <<"a">>, <<>>}
ProtoTokens == {S_HTTP11, S_HTTP10, <<>>}
LineTails == {<<>>, <<SP>>, <<SP, "x">>}

ReqStartLines ==
    {m \o <<SP>> \o p \o <<SP>> \o S_HTTP11 \o CRLF :
         m \in MethodTokens, p \in PathTokens}
    \cup {Concat(<<lead, m, s1, p, s2, v, t, eol>>) :
             lead \in {<<>>, <<SP>>}, m \in {S_GET, <<"g", "e", "t">>},
             s1 \in Seps, p \in PathTokens, s2 \in Seps, v \in ProtoTokens,
             t \in LineTails, eol \in Eols}

\* Status lines of responses, well-formed and not.
CodeTokens ==
    {<<"2", "0", "0">>, <<"4", "0", "4">>, <<>>, <<"2", "x">>, <<"+", "7">>,
     <<"-", "1">>}
Reasons ==
    {<<>>, <<SP>>, <<SP>> \o S_OK, <<SP>> \o S_NOT_FOUND, <<SP, SP>> \o S_OK}

StatusLines ==
    {Concat(<<lead, v, s1, c, d, eol>>) :
         lead \in {<<>>, <<SP>>}, v \in {S_HTTP11, S_HTTP10}, s1 \in Seps,
         c \in CodeTokens, d \in Reasons, eol \in Eols}

\* Header lines, well-formed and not.
LinePool ==
    {<<"k", ":", "v">> \o CRLF,
     <<"k", ":", SP, "v">> \o CRLF,
     <<"k", ":", SP, SP, "v">> \o CRLF,
     <<"k", SP, ":", "v", SP>> \o CRLF,
     <<SP, "j", ":", "w">> \o CRLF,
     <<":">> \o CRLF,
     <<"k", ":", "v", ":", "w">> \o CRLF,
     <<"k">> \o CRLF,
     <<SP>> \o CRLF,
     <<LF>>,
     <<"k", ":", "v", LF>>,
     <<"k", ":", "a", CR, "b">> \o CRLF,
     <<"k", NUL, ":", "v">> \o CRLF,
     <<"k", ":", "v", NUL, "w">> \o CRLF,
     <<NUL>> \o CRLF}

\* How a header block ends: the blank line, the blank line and a body, the
\* end of the stream, an unterminated line.
Endings == {CRLF, CRLF \o <<"k", ":", "v">> \o CRLF, <<>>, <<"k", ":", "v">>}

HeaderBlocks ==
    {Concat(ls) \o e : ls \in SeqsUpTo(LinePool, MaxLines), e \in Endings}

GoodRequestLine == S_GET \o <<SP, "/", "a", SP>> \o S_HTTP11 \o CRLF
GoodStatusLine == S_HTTP11 \o <<SP, "2", "0", "0", SP>> \o S_OK \o CRLF

InitParse ==
    /\ \/ /\ pc = "recv_req"
          /\ \/ /\ stream \in {l \o e : l \in ReqStartLines, e \in {CRLF, <<>>}}
                             \cup {GoodRequestLine \o b : b \in HeaderBlocks}
                /\ env = NoFault
             \/ /\ stream \in {GoodRequestLine \o l \o l \o CRLF : l \in LinePool}
                             \cup {<<>>}
                /\ env \in Faults
       \/ /\ pc = "recv_res"
          /\ \/ /\ stream \in {l \o e : l \in StatusLines, e \in {CRLF, <<>>}}
                             \cup {GoodStatusLine \o b : b \in HeaderBlocks}
                /\ env = NoFault
             \/ /\ stream \in {GoodStatusLine \o l \o l \o CRLF : l \in LinePool}
                             \cup {<<>>}
                /\ env \in Faults
    /\ wire = stream
    /\ req = NoReq /\ res = NoRes
    /\ ret = NoRet
    /\ ServerIdle

NextParse == RecvReq \/ RecvRes

SpecParse == InitParse /\ [][NextParse]_vars

-----------------------------------------------------------------------------
(* Properties of decoding *)

\* The lines of a stream: each ends with its LF, but perhaps the last.
RECURSIVE SplitLines(_)
SplitLines(s) ==
    IF s = <<>> THEN <<>>
    ELSE LET l == getline(s) IN <<l.line>> \o SplitLines(l.rest)

\* s split at its first space.
SplitAtSpace(s) ==
    LET i == strcspn(s, {SP})
    IN  [found |-> i < Len(s), left |-> Take(s, i), right |-> Drop(s, i + 1)]

IsMethodName(t) ==
    \E m \in DOMAIN HTTP_METHOD_STRINGS : HTTP_METHOD_STRINGS[m] = t

\* The start lines C2 says are accepted: method, one space, a path token
\* starting with "/", one space, "HTTP/1.1\r\n".
StrictRequestLine(line) ==
    LET a == SplitAtSpace(line)
        b == SplitAtSpace(a.right)
    IN  /\ a.found /\ IsMethodName(a.left)
        /\ b.found /\ StartsWith(b.left, <<"/">>)
        /\ b.right = S_HTTP11 \o CRLF

IsReqResult == "method" \in DOMAIN ret
IsResResult == "code" \in DOMAIN ret

\* C2: recv_req accepts a start line only when it is method, space, path
\* token starting with "/", space, "HTTP/1.1\r\n"; every other start line is
\* rejected with the malformed-head error.
C2_StrictStartLine ==
    (pc = "done" /\ IsReqResult /\ FaultFree(env) /\ wire # <<>>)
    => IF StrictRequestLine(getline(wire).line)
       THEN ret.ret # E_HEAD
       ELSE ret.ret = E_HEAD

\* The status lines C10 says are accepted: "HTTP/1.1", a space, a code that
\* strtol reads to its end, and then either the end of the line or a space
\* and the description.
StatusLineParts(line) ==
    LET body == Take(Drop(line, Len(S_HTTP11) + 1), Len(line) - Len(S_HTTP11) - 3)
        c == SplitAtSpace(body)
    IN  [ok |-> /\ StartsWith(line, S_HTTP11 \o <<SP>>)
                /\ Len(line) >= Len(S_HTTP11) + 3
                /\ Drop(line, Len(line) - 2) = CRLF
                /\ c.left # <<>> /\ ~Has(c.left, Space)
                /\ strtol(c.left).endptr = <<>>
                /\ ~Has(c.right, {CR, LF, NUL}),
         code |-> strtol(c.left).value,
         description |-> c.right]

\* C10: recv_res accepts exactly the status lines "HTTP/1.1 <code>
\* <description>" whose code is an integer; the description may be empty or
\* missing ("HTTP/1.1 <code>\r\n") and is then the empty string; any other
\* status line gives the malformed-head error.
C10_StatusLine ==
    (pc = "done" /\ IsResResult /\ FaultFree(env) /\ wire # <<>>)
    => LET p == StatusLineParts(getline(wire).line)
       IN  IF p.ok
           THEN /\ ret.ret # E_HEAD
                /\ ret.code = p.code
                /\ ret.ret = 0 => ret.description = p.description
           ELSE ret.ret = E_HEAD

\* The header lines of the stream: the lines after the start line.
HeaderLinesOf(w) == Tail(SplitLines(w))

\* The index of the first line of ls that P holds of, Len(ls) + 1 if none.
RECURSIVE FirstIndex(_, _, _)
FirstIndex(ls, P(_), i) ==
    IF i > Len(ls) \/ P(ls[i]) THEN i ELSE FirstIndex(ls, P, i + 1)

IsBlank(l) == l = CRLF
HasColon(l) == Has(l, {":"})
NoColon(l) == ~IsBlank(l) /\ ~HasColon(l)

\* The key and value of a line as C3 states them: the text before the
\* first colon; the text after it, leading spaces skipped, without the
\* line's trailing CRLF.
StripCRLF(l) ==
    IF Len(l) >= 2 /\ Drop(l, Len(l) - 2) = CRLF THEN Take(l, Len(l) - 2) ELSE l

EntryAsStated(l) ==
    LET after == Drop(l, strcspn(l, {":"}) + 1)
    IN  http_header(Take(l, strcspn(l, {":"})),
                    StripCRLF(Drop(after, strspn(after, {SP}))))

\* The key and value of a line as the code reads them: the line is its
\* text before the first NUL, and the value stops at the first CR or LF.
EntryAsRead(l) ==
    LET t == CStr(l)
        after == Drop(t, strcspn(t, {":"}) + 1)
        v == Drop(after, strspn(after, {SP}))
    IN  http_header(Take(t, strcspn(t, {":"})), Take(v, strcspn(v, {CR, LF})))

HeadAccepted ==
    \/ IsReqResult /\ StartsWith(wire, GoodRequestLine)
    \/ IsResResult /\ StartsWith(wire, GoodStatusLine)

\* C3 as stated: one entry per line before the first line equal to CRLF, in
\* order; the key is the text before the first colon, the value the text
\* after it without leading spaces and without the trailing CRLF; a line
\* with no colon makes the decode fail with -3.
C3_HeaderBlockAsStated ==
    (pc = "done" /\ HeadAccepted /\ FaultFree(env))
    => LET ls == HeaderLinesOf(wire)
           b == FirstIndex(ls, IsBlank, 1)
           c == FirstIndex(ls, NoColon, 1)
       IN  /\ (b <= Len(ls) /\ b < c) =>
                  /\ ret.ret = 0
                  /\ ret.header = [i \in 1..(b - 1) |-> EntryAsStated(ls[i])]
           /\ (c <= Len(ls) /\ c < b) => ret.ret = E_HEADERS

TextBlank(l) == CStr(l) = CRLF
TextNoColon(l) == ~TextBlank(l) /\ ~Has(CStr(l), {":"})

\* C3, amended: a line is read as its text before the first NUL byte, and
\* the value stops at the first CR or LF.
C3_HeaderBlock ==
    (pc = "done" /\ HeadAccepted /\ FaultFree(env))
    => LET ls == HeaderLinesOf(wire)
           b == FirstIndex(ls, TextBlank, 1)
           c == FirstIndex(ls, TextNoColon, 1)
       IN  /\ (b <= Len(ls) /\ b < c) =>
                  /\ ret.ret = 0
                  /\ ret.header = [i \in 1..(b - 1) |-> EntryAsRead(ls[i])]
           /\ (c <= Len(ls) /\ c < b) => ret.ret = E_HEADERS
           /\ E_HEADERS # E_HEAD

C3_Witness ==
    /\ pc = "done" /\ HeadAccepted /\ FaultFree(env)
    /\ ret.ret = 0 /\ Len(ret.header) = 2
    /\ ret.header[1].key = ret.header[2].key
    /\ ret.header[1].value # ret.header[2].value
    /\ Len(HeaderLinesOf(wire)) > 3

\* Whether the line l is complete: it ends with its LF.
CompleteLine(l) == l # <<>> /\ l[Len(l)] = LF

\* The stream ends after the start line and complete header lines, before
\* any blank line.
TruncatedHeaders ==
    LET ls == HeaderLinesOf(wire)
    IN  /\ HeadAccepted
        /\ \A i \in 1..Len(ls) :
               CompleteLine(ls[i]) /\ ~TextBlank(ls[i]) /\ ~TextNoColon(ls[i])

\* C11: when the stream ends after the start line and any number of
\* complete header lines but before the blank line, recv_req and recv_res
\* return the malformed-headers error (-3), not -1 and not 0.
C11_TruncatedIsFraming ==
    (pc = "done" /\ FaultFree(env) /\ TruncatedHeaders) => ret.ret = E_HEADERS

\* C12: recv_req on a stream closed before any byte was sent returns an
\* error kind of its own, which is neither success nor malformed head (-2)
\* nor malformed headers (-3) nor the I/O failure (-1).
C12_CleanCloseKind ==
    (pc = "done" /\ IsReqResult /\ FaultFree(env) /\ wire = <<>>)
    => ret.ret \notin {0, E_FAIL, E_HEAD, E_HEADERS}

-----------------------------------------------------------------------------
(* http.c: clear_http_head *)

FgetsSize == 1024

\* fgets(buf, size, stream): NULL at end of stream, else at most size - 1
\* bytes, up to and including the first LF.
fgets(s, size) ==
    LET n == strcspn(s, {LF})
        line == IF n < Len(s) THEN n + 1 ELSE n
        k == Min(size - 1, line)
    IN  [ok |-> s # <<>>, buf |-> Take(s, k), rest |-> Drop(s, k)]

\* clear_http_head(stream): fgets until it returns NULL or the text read is
\* "\r\n".  The value is the stream that is left.
RECURSIVE clear_http_head(_)
clear_http_head(s) ==
    LET l == fgets(s, FgetsSize)
    IN  IF ~l.ok THEN s
        ELSE IF CStr(l.buf) = CRLF THEN l.rest
        ELSE clear_http_head(l.rest)

-----------------------------------------------------------------------------
(* server.c: one iteration of the accept loop *)

S_BAD_REQUEST == <<"B", "a", "d", SP, "R", "e", "q", "u", "e", "s", "t">>
S_NOT_IMPLEMENTED == <<"N", "o", "t", SP, "i", "m", "p", "l", "e", "m", "e", "n", "t", "e", "d">>
S_FORBIDDEN == <<"F", "o", "r", "b", "i", "d", "d", "e", "n">>
S_INTERNAL == <<"I", "n", "t", "e", "r", "n", "a", "l", SP, "S", "e", "r", "v", "e", "r", SP, "E", "r", "r", "o", "r">>
S_TEXT_CSS == <<"t", "e", "x", "t", "/", "c", "s", "s">>
S_APPLICATION_JS == <<"a", "p", "p", "l", "i", "c", "a", "t", "i", "o", "n", "/", "j", "a", "v", "a", "s", "c", "r", "i", "p", "t">>
S_EXT_HTML == <<".", "h", "t", "m", "l">>
S_EXT_HTM == <<".", "h", "t", "m">>
S_EXT_CSS == <<".", "c", "s", "s">>
S_EXT_JS == <<".", "j", "s">>

\* The bodiless responses the server builds: header_ln = 0, body = NULL.
StatusOnly(code, description) ==
    [code |-> code, description |-> description, header |-> <<>>,
     body |-> NoBody]

\* The size handed to malloc for the buffer of the path.
PathSize(a, p) ==
    IF Len(p) = 0 THEN Len(a.doc_root) + Len(a.index) + 2
    ELSE IF p[Len(p)] = "/" THEN Len(a.doc_root) + Len(p) + Len(a.index) + 1
    ELSE Len(a.doc_root) + Len(p) + 1

\* A resolution that never appends the index file.
ResolvePath_noindex(a, p) == a.doc_root \o p

\* The path handed to fopen for the request path p.
ResolvePath(a, p) ==
    IF Len(p) = 0 THEN a.doc_root \o <<"/">> \o a.index
    ELSE IF p[Len(p)] = "/" THEN a.doc_root \o p \o a.index
    ELSE a.doc_root \o p

\* strrchr(path, '.'): the text from the last "." on, NULLPTR without one.
strrchr_dot(path) ==
    LET dots == {i \in 1..Len(path) : path[i] = "."}
    IN  IF dots = {} THEN NULLPTR
        ELSE Drop(path, (CHOOSE i \in dots : \A j \in dots : j <= i) - 1)

\* The header array of the 200 response: Content-Type when the extension
\* is known, nothing otherwise.
MimeHeader(path) ==
    LET extension == strrchr_dot(path)
    IN  IF extension \in {S_EXT_HTML, S_EXT_HTM}
        THEN <<http_header(S_CONTENT_TYPE, S_TEXT_HTML)>>
        ELSE IF extension = S_EXT_CSS
        THEN <<http_header(S_CONTENT_TYPE, S_TEXT_CSS)>>
        ELSE IF extension = S_EXT_JS
        THEN <<http_header(S_CONTENT_TYPE, S_APPLICATION_JS)>>
        ELSE <<>>

\* A server that answers every failure of fopen with 500.
OpenFailure_500(e) == StatusOnly(500, S_INTERNAL)

\* The response the server builds when fopen fails with errno e.
OpenFailure(e) ==
    IF e = ENOENT THEN StatusOnly(404, S_NOT_FOUND)
    ELSE IF e = EACCES THEN StatusOnly(403, S_FORBIDDEN)
    ELSE StatusOnly(500, S_INTERNAL)

\* One call of send_res on the connection: the response and what came of it.
Sent(r, sr) ==
    [code |-> r.code, description |-> r.description, header |-> r.header,
     body |-> r.body # NoBody, ret |-> sr.ret, out |-> sr.out]

\* send_res(connection, &res) in the environment e.
Send(r, e) == Sent(r, send_res(r, e))

M_MALFORMED == "Received malformed packet"
M_READ == "Error while reading request"
M_SEND == "Failed to send response"
M_ALLOC == "Failed to allocate memory"
M_FILE == "Failed to access file"
M_ACCEPT == "Failed to initiate client connection"

\* perror("Failed to send response") after the call sent.
SendLog(sent) == IF sent.ret = -1 THEN <<M_SEND>> ELSE <<>>

\* What one iteration does with an accepted connection.
\*   r       what recv_req returned
\*   sent    the calls of send_res, in order
\*   opened  the paths handed to fopen
\*   rest    the bytes of the connection left unread when it is closed
\*   log     the messages written to stderr
\*   exit    whether main returns -1 instead of continuing
Served(r, sent, opened, rest, log, exit) ==
    [r |-> r, sent |-> sent, opened |-> opened, rest |-> rest, log |-> log,
     exit |-> exit]

\* The env of a connection is a record: recv, first and last are the
\* environments of recv_req, of the 400 or 501 send_res and of the final
\* send_res; pathoom is whether the malloc of the path returns NULL; fopen
\* is what fopen meets: errno 0 and the file's bytes, or the errno of its
\* failure.

\* The malformed request r: the head is drained and 400 is sent.
reject(r, bad) ==
    Served(r, <<bad>>, <<>>, clear_http_head(r.rest),
        <<M_MALFORMED>> \o SendLog(bad), FALSE)

\* The end of the iteration, after the last response of the connection.
respond(r, first, path, log, last) ==
    Served(r, first \o <<last>>, <<path>>, r.rest, log \o SendLog(last), FALSE)

\* The 200 response for the file f opened at path.
FileResponse(path, f) ==
    [code |-> 200, description |-> S_OK, header |-> MimeHeader(path),
     body |-> [data |-> f.data, pos |-> 0]]

\* The iteration from fopen(path) on.
serve_file(r, first, path, f, e) ==
    IF f.errno = 0
    THEN respond(r, first, path, <<>>, Send(FileResponse(path, f), e.last))
    ELSE respond(r, first, path,
             IF f.errno \in {ENOENT, EACCES} THEN <<>> ELSE <<M_FILE>>,
             Send(OpenFailure(f.errno), e.last))

\* The iteration after the method test: the allocation of the path, then
\* the file.
serve_rest(r, first, e, a) ==
    IF e.pathoom THEN Served(r, first, <<>>, r.rest, <<M_ALLOC>>, TRUE)
    ELSE serve_file(r, first, ResolvePath(a, r.path), e.fopen, e)

\* The request r with a method other than GET, after 501 has been sent.
not_get(r, notimpl, e, a) ==
    IF notimpl.ret = -1
    THEN Served(r, <<notimpl>>, <<>>, r.rest, <<M_SEND>>, FALSE)
    ELSE serve_rest(r, <<notimpl>>, e, a)

\* The iteration after recv_req has returned r.
serve_req(r, e, a) ==
    IF r.ret \in {E_HEAD, E_HEADERS}
    THEN reject(r, Send(StatusOnly(400, S_BAD_REQUEST), e.first))
    ELSE IF r.ret # 0
    THEN Served(r, <<>>, <<>>, r.rest, <<M_READ>>, FALSE)
    ELSE IF r.method # HTTP_GET
    THEN not_get(r, Send(StatusOnly(501, S_NOT_IMPLEMENTED), e.first), e, a)
    ELSE serve_rest(r, <<>>, e, a)

\* The heap h with the blocks and the misuse that recv_req left in hp.
Merge(h, hp) ==
    [hp EXCEPT !.live = h.live \cup hp.live, !.bad = h.bad \cup hp.bad]

\* The exit status of a process that abort() has ended, as the shell
\* reports it: what glibc does when free detects a block freed twice.
Aborted == 128 + 6

\* fclose(connection).
CloseConn(h) == Free(h, Block("connection", 0))

\* What the iteration x does to the heap h that recv_req left, f being
\* what fopen met: free_http_req, the malloc and the free of the path, the
\* fopen and the fclose of the body, the fclose of the connection.
serve_heap(h, x, f) ==
    LET header_ln == Len(x.r.header)
        path == Block("resolved", 0)
        body == Block("body", 0)
    IN  IF x.r.ret # 0 THEN CloseConn(h)
        ELSE IF x.opened = <<>> THEN CloseConn(free_http_req(h, header_ln))
        ELSE IF f.errno # 0
        THEN CloseConn(Free(free_http_req(Malloc(h, path), header_ln), path))
        ELSE CloseConn(Free(Free(
                 Malloc(free_http_req(Malloc(h, path), header_ln), body),
                 path), body))

\* The environment of recv_req on the connection.  The handlers are
\* installed with sa_flags = 0, that is without SA_RESTART: a signal
\* delivered while getline call number intr blocks in read makes that call
\* fail with errno EINTR.
RecvEnv(e) ==
    IF e.intr = 0 THEN e.recv
    ELSE [e.recv EXCEPT !.rdfail = e.intr, !.errno = EINTR]

\* The body of the accept loop for the connection whose unread bytes are s.
serve(s, e, a) == serve_req(recv_req(s, RecvEnv(e)), e, a)

-----------------------------------------------------------------------------
(* server.c: main *)

MaxConns == 2
SIGINT == 2
SIGTERM == 15
EXIT_FAILURE == 1

ArgsSet ==
    {[doc_root |-> <<"/", "r">>, index |-> <<"i", "n", "d", "e", "x", ".", "h", "t", "m", "l">>],
     [doc_root |-> <<".">>, index |-> <<"i", ".", "j", "s">>]}

\* What fopen can meet.
Files ==
    {[errno |-> 0, data |-> Data(n)] : n \in {0, 3}}
        \cup {[errno |-> x, data |-> <<>>] : x \in {ENOENT, EACCES, EIO}}

NoServerFault ==
    [recv |-> NoFault, first |-> NoFault, last |-> NoFault, pathoom |-> FALSE]

\* One fault per connection.
ServerFaults ==
    {[NoServerFault EXCEPT !.recv = f] :
        f \in {[NoFault EXCEPT !.oom = k] : k \in 1..3}
              \cup {[NoFault EXCEPT !.rdfail = k, !.errno = EIO] : k \in 1..2}}
    \cup {[NoServerFault EXCEPT !.first = f] :
        f \in {[NoFault EXCEPT !.wfail = k] : k \in 1..3}
              \cup {[NoFault EXCEPT !.tmnull = TRUE]}}
    \cup {[NoServerFault EXCEPT !.last = f] :
        f \in {[NoFault EXCEPT !.wfail = k] : k \in 1..5}
              \cup {[NoFault EXCEPT !.tmnull = TRUE],
                    [NoFault EXCEPT !.bodyerr = TRUE]}}
    \cup {[NoServerFault EXCEPT !.pathoom = TRUE]}

ServerEnv(f, file) ==
    [recv |-> f.recv, first |-> f.first, last |-> f.last,
     pathoom |-> f.pathoom, fopen |-> file, intr |-> 0]

\* A line as long as the buffer of clear_http_head lets fgets read at once.
LongLine == [i \in 1..(FgetsSize - 1) |-> "a"] \o CRLF

S_KV == <<"k", ":", "v", CR, LF>>
S_GARBAGE == <<"g", "a", "r", "b", "a", "g", "e", CR, LF>>
S_BODY == <<"x", "y">>

RequestLineOf(m, p) ==
    HTTP_METHOD_STRINGS[m] \o <<SP>> \o p \o <<SP>> \o S_HTTP11 \o CRLF

ServerPaths ==
    {<<"/">>, <<"/", "a">>, <<"/", "a", ".", "h", "t", "m", "l">>, <<"/", "d", "/">>, <<"/", "a", ".", "c", "s", "s">>, <<"/", "a", ".", "j", "s">>, <<"/", "a", ".", "b", "/", "c">>}

\* What can follow the start line.
ServerBlocks ==
    {CRLF, S_KV \o CRLF, S_KV \o CRLF \o S_BODY, <<>>, S_KV,
     S_GARBAGE \o S_KV \o CRLF \o S_BODY, S_GARBAGE, CRLF \o S_KV \o CRLF,
     LongLine \o S_KV \o CRLF \o S_BODY,
     S_GARBAGE \o LongLine \o S_KV \o CRLF}

BadStartLines ==
    {<<"F", "O", "O", SP, "/", "a", SP, "H", "T", "T", "P", "/", "1", ".", "1", CR, LF>>, <<"G", "E", "T", SP, "a", SP, "H", "T", "T", "P", "/", "1", ".", "1", CR, LF>>, <<"G", "E", "T", SP, "/", "a", SP, "H", "T", "T", "P", "/", "1", ".", "0", CR, LF>>,
     <<"G", "E", "T", SP, "/", "a">>, CRLF, <<"G", "E", "T", CR, LF>>, <<LF>>}

\* The bytes a client sends before it stops sending: streams that begin
\* with a well-formed start line, and (BadStreams) streams that do not.
ClientStreams ==
    {RequestLineOf(HTTP_GET, <<"/">>) \o CRLF}
    \cup {RequestLineOf(m, <<"/", "a">>) \o b :
             m \in DOMAIN HTTP_METHOD_STRINGS, b \in {CRLF, S_GARBAGE \o CRLF}}
    \cup {RequestLineOf(HTTP_GET, p) \o CRLF : p \in ServerPaths}
    \cup {RequestLineOf(m, <<"/", "a", ".", "h", "t", "m", "l">>) \o b :
             m \in {HTTP_GET, HTTP_PATCH}, b \in ServerBlocks}

BadStreams == {<<>>} \cup {l \o b : l \in BadStartLines, b \in ServerBlocks}

FaultyStreams ==
    {RequestLineOf(m, <<"/", "a", ".", "h", "t", "m", "l">>) \o S_KV \o S_KV \o CRLF : m \in {HTTP_GET, HTTP_PATCH}}
    \cup {<<"F", "O", "O", SP, "/", "a", SP, "H", "T", "T", "P", "/", "1", ".", "1", CR, LF>> \o S_KV \o CRLF}

InitServer ==
    /\ pc = "open_socket"
    /\ args \in ArgsSet
    /\ socket = "none" /\ status = NoStatus
    /\ pending_signal = 0 /\ conn = NoConn /\ served = 0
    /\ req = NoReq /\ res = NoRes /\ env = NoFault
    /\ stream = <<>> /\ wire = <<>> /\ ret = NoRet
    /\ heap = NoHeap

\* open_socket and the installation of the handlers; a failure ends main.
OpenSocket ==
    /\ pc = "open_socket"
    /\ \/ socket' = "open" /\ pc' = "loop" /\ status' = status
       \/ socket' = socket /\ pc' = "exited" /\ status' = EXIT_FAILURE
    /\ UNCHANGED <<req, res, env, stream, wire, ret, pending_signal, conn,
                   served, args, heap>>

\* sig_handler, run when SIGINT or SIGTERM is delivered.
Signal ==
    /\ pc \in {"loop", "accept", "handle"}
    /\ \E signum \in {SIGINT, SIGTERM} : pending_signal' = signum
    /\ UNCHANGED <<pc, req, res, env, stream, wire, ret, conn, served, args,
                   socket, status, heap>>

\* The test of the while loop, reached with nothing left of the iteration
\* before (its req, connection and path are out of scope).  When the test
\* holds the next iteration begins; when it fails main closes the socket
\* and returns 0.
LoopTest ==
    /\ pc = "loop"
    /\ IF pending_signal = 0
       THEN pc' = "accept" /\ UNCHANGED <<socket, status>>
       ELSE pc' = "exited" /\ socket' = "closed" /\ status' = 0
    /\ conn' = NoConn /\ ret' = NoRet /\ env' = NoFault
    /\ stream' = <<>> /\ wire' = <<>>
    /\ UNCHANGED <<req, res, pending_signal, served, args, heap>>

\* accept_client_conn returns a connection: a client has connected and
\* sends the bytes of stream.
Accept ==
    /\ pc = "accept"
    /\ served < MaxConns
    /\ \/ /\ stream' \in ClientStreams
          /\ \E file \in Files : env' = ServerEnv(NoServerFault, file)
       \/ /\ stream' \in BadStreams
          /\ env' = ServerEnv(NoServerFault, [errno |-> ENOENT, data |-> <<>>])
       \/ /\ stream' \in FaultyStreams
          /\ \E f \in ServerFaults, file \in Files :
                 /\ file.errno \in {0, ENOENT} /\ Len(file.data) \in {0, 3}
                 /\ file.errno = 0 => file.data # <<>>
                 /\ env' = ServerEnv(f, file)
    /\ wire' = stream'
    /\ conn' = [NoConn EXCEPT !.open = TRUE]
    /\ ret' = NoRet
    /\ served' = served + 1
    /\ heap' = Malloc(NoHeap, Block("connection", 0))
    /\ pc' = "handle"
    /\ UNCHANGED <<req, res, pending_signal, args, socket, status>>

\* accept_client_conn returns NULL with an errno other than EINTR.
AcceptFail ==
    /\ pc = "accept"
    /\ conn' = [NoConn EXCEPT !.log = <<M_ACCEPT>>]
    /\ pc' = "loop"
    /\ UNCHANGED <<req, res, env, stream, wire, ret, pending_signal, served,
                   args, socket, status, heap>>

\* A signal is delivered while accept blocks: the handler runs and
\* accept_client_conn returns NULL with errno EINTR.
AcceptInterrupted ==
    /\ pc = "accept"
    /\ \E signum \in {SIGINT, SIGTERM} : pending_signal' = signum
    /\ pc' = "loop"
    /\ UNCHANGED <<req, res, env, stream, wire, ret, conn, served, args,
                   socket, status, heap>>

\* A signal is delivered while recv_req blocks in the read of getline call
\* number k: the handler runs and the read fails with EINTR.
ReadInterrupted ==
    /\ pc = "handle"
    /\ env.intr = 0 /\ env.recv = NoFault
    /\ \E signum \in {SIGINT, SIGTERM} : pending_signal' = signum
    /\ \E k \in 1..2 : env' = [env EXCEPT !.intr = k]
    /\ UNCHANGED <<pc, req, res, stream, wire, ret, conn, served, args,
                   socket, status, heap>>

\* The end of the iteration x, hp being the heap recv_req left: the rest of
\* the loop body, or the abort of the process when free was called on a
\* block that was not live.
HandleEnd(x, hp) ==
    \/ /\ ret' = x.r
       /\ stream' = x.rest
       /\ conn' = [open |-> FALSE, sent |-> x.sent, opened |-> x.opened,
                   log |-> x.log]
       /\ heap' = serve_heap(hp, x, env.fopen)
       /\ IF x.exit
          THEN pc' = "exited" /\ socket' = "closed" /\ status' = -1
          ELSE pc' = "loop" /\ UNCHANGED <<socket, status>>
    \/ /\ hp.bad # {}
       /\ ret' = x.r
       /\ stream' = x.r.rest
       /\ heap' = hp
       /\ pc' = "exited" /\ status' = Aborted
       /\ UNCHANGED <<conn, socket>>

\* recv_req on the heap of the connection; realloc moves a block or not.
HandleHeap(x) ==
    \E moved \in BOOLEAN :
        HandleEnd(x, Merge(heap, recv_req_heap(stream, RecvEnv(env), moved)))

\* The rest of the iteration, from recv_req to the fclose of the
\* connection.
Handle ==
    /\ pc = "handle"
    /\ HandleHeap(serve(stream, env, args))
    /\ UNCHANGED <<req, res, env, wire, pending_signal, served, args>>

NextServer ==
    \/ OpenSocket
    \/ Signal
    \/ LoopTest
    \/ Accept
    \/ AcceptFail
    \/ AcceptInterrupted
    \/ ReadInterrupted
    \/ Handle

SpecServer == InitServer /\ [][NextServer]_vars

-----------------------------------------------------------------------------
(* Properties of the accept loop *)

\* The iteration has run to its end: the connection is closed and ret
\* holds what recv_req returned on it.
Handled == ~conn.open /\ IsReqResult

\* The indexes of the responses written in full on the connection.
Written == {i \in 1..Len(conn.sent) : conn.sent[i].ret = 0}

\* C4: for every accepted connection, the server writes at most one HTTP
\* response before it closes the connection.
C4_OneResponse == Handled => Cardinality(Written) <= 1

\* C5: for a decoded request whose method is not GET the server first sends
\* 501 without a body; if that send succeeds it goes on to resolve the path
\* and open the file, and sends a second response (200, 404, 403 or 500) on
\* the same connection before closing it.
C5_SecondResponse ==
    (Handled /\ ret.ret = 0 /\ ret.method # HTTP_GET) =>
        /\ Len(conn.sent) >= 1
        /\ conn.sent[1].code = 501 /\ ~conn.sent[1].body
        /\ conn.sent[1].ret = 0 =>
               /\ Len(conn.opened) = 1
               /\ Len(conn.sent) = 2
               /\ conn.sent[2].code \in {200, 404, 403, 500}

\* What is left of s after its first blank line, nothing when it has none.
RECURSIVE AfterBlankLine(_)
AfterBlankLine(s) ==
    LET l == getline(s)
    IN  IF ~l.ok THEN <<>>
        ELSE IF l.line = CRLF THEN l.rest
        ELSE AfterBlankLine(l.rest)

\* C6: when recv_req returns -2 or -3 the server drains the header lines
\* left on the stream up to the first blank line or the end of the stream,
\* sends 400 without a body, closes the connection and goes on to the next
\* accept; it never opens a file for that request.
C6_DrainAndReject ==
    (Handled /\ ret.ret \in {E_HEAD, E_HEADERS}) =>
        /\ stream = AfterBlankLine(ret.rest)
        /\ Len(conn.sent) = 1
        /\ conn.sent[1].code = 400 /\ ~conn.sent[1].body
        /\ conn.opened = <<>>
        /\ pc = "loop" /\ socket = "open"

\* C13: when a client connects and closes before sending a byte, the
\* server closes the connection and goes on to the next accept, without
\* sending a response and without logging an error.
C13_CleanCloseQuiet ==
    (Handled /\ wire = <<>> /\ FaultFree(env.recv)) =>
        /\ conn.sent = <<>>
        /\ conn.log = <<>>
        /\ pc = "loop"

\* C14: once the listening socket exists, no failure on a connection ends
\* the server process: main returns only when a shutdown signal has set
\* the flag.
C14_OnlySignalEnds ==
    (pc = "exited" /\ socket # "none") => (pending_signal # 0 /\ status = 0)

\* C15: once SIGINT or SIGTERM has set the flag, wherever in the loop the
\* signal was delivered, the server accepts no further connection.
C15_NoAcceptAfterSignal == [][pending_signal # 0 => served' = served]_vars


\* C16: a shutdown signal delivered while a connection is processed does
\* not alter the exchange: the connection gets the responses it would have
\* got without the signal.
C16_SignalLeavesExchange ==
    Handled => conn.sent = serve(wire, [env EXCEPT !.intr = 0], args).sent

\* C17: the file opened for the decoded request path p is
\* doc_root + "/" + index when p is empty, doc_root + p + index when p ends
\* with "/", and doc_root + p otherwise; the buffer allocated for it holds
\* the path and its terminator.
C17_PathResolution ==
    (Handled /\ conn.opened # <<>>) =>
        LET p == ret.path
            d == args.doc_root
            x == args.index
            path == conn.opened[1]
        IN  /\ Len(conn.opened) = 1
            /\ p = <<>> => path = d \o <<"/">> \o x
            /\ (p # <<>> /\ p[Len(p)] = "/") => path = d \o p \o x
            /\ (p # <<>> /\ p[Len(p)] # "/") => path = d \o p
            /\ Len(path) + 1 <= PathSize(args, p)

\* The request path "/" has been resolved to the index file of the root,
\* and on another connection a path without a final "/" to itself.
C17_Witness ==
    /\ Handled
    /\ args.doc_root = <<"/", "r">>
    /\ \/ ret.path = <<"/">>
          /\ conn.opened = <<<<"/", "r", "/", "i", "n", "d", "e", "x", ".", "h", "t", "m", "l">>>>
       \/ ret.path = <<"/", "d", "/">>
          /\ conn.opened = <<<<"/", "r", "/", "d", "/", "i", "n", "d", "e", "x", ".", "h", "t", "m", "l">>>>

\* The status line text that belongs to the failure class of errno e.
FailureStatus(e) ==
    IF e = ENOENT THEN <<"4", "0", "4", SP>> \o S_NOT_FOUND
    ELSE IF e = EACCES THEN <<"4", "0", "3", SP>> \o S_FORBIDDEN
    ELSE <<"5", "0", "0", SP>> \o S_INTERNAL

\* The bytes of a response with that status line, no header of its own,
\* Content-Length 0 and no body.
EmptyResponse(line, date) ==
    S_HTTP11 \o <<SP>> \o line \o CRLF
        \o S_DATE \o <<":", SP>> \o date \o CRLF
        \o S_CONTENT_LENGTH \o <<":", SP, "0">> \o CRLF
        \o S_CONNECTION \o <<":", SP>> \o S_CLOSE \o CRLF \o CRLF

\* fopen was called on the connection and failed.
OpenFailed == Handled /\ conn.opened # <<>> /\ env.fopen.errno # 0

\* C18: when fopen of the resolved path fails, the response the server
\* sends for it has the status of the failure class (404 for ENOENT, 403
\* for EACCES, 500 otherwise), no Content-Type or other header of its own,
\* Content-Length 0 and no body; the connection is closed and the loop goes
\* on.  A 200 response is sent only when fopen succeeded.
C18_OpenFailureStatus ==
    /\ OpenFailed =>
          LET last == conn.sent[Len(conn.sent)]
          IN  /\ last.code = (IF env.fopen.errno = ENOENT THEN 404
                               ELSE IF env.fopen.errno = EACCES THEN 403
                               ELSE 500)
              /\ last.header = <<>> /\ ~last.body
              /\ last.ret = 0 =>
                     last.out = EmptyResponse(FailureStatus(env.fopen.errno),
                                              env.last.date)
              /\ \E k \in 0..Len(last.out) :
                     last.out = Take(EmptyResponse(
                         FailureStatus(env.fopen.errno), env.last.date), k)
              /\ stream = ret.rest
              /\ pc = "loop"
    /\ Handled =>
          \A i \in 1..Len(conn.sent) :
              conn.sent[i].code = 200 =>
                  conn.opened # <<>> /\ env.fopen.errno = 0

\* A GET of a file that cannot be read has been answered with 403, and
\* the whole response was written.
C18_Witness ==
    /\ OpenFailed
    /\ env.fopen.errno = EACCES
    /\ ret.method = HTTP_GET
    /\ Len(conn.sent) = 1
    /\ conn.sent[1].code = 403 /\ conn.sent[1].ret = 0
    /\ pc = "loop"

-----------------------------------------------------------------------------
(* client.c *)

S_HTTP_URL == <<"h", "t", "t", "p", ":", "/", "/">>
S_HOST == <<"H", "o", "s", "t">>
S_INDEX_HTML == <<"i", "n", "d", "e", "x", ".", "h", "t", "m", "l">>
S_NULL == <<"(", "n", "u", "l", "l", ")">>

M_INVALID_URL == "Invalid URL"
M_PARSE_URL == "Failed to parse URL"
M_OPEN_FILE == "Failed to open file"
M_CONNECT == "Failed to initiate connection"
M_SEND_REQ == "Failed to send request"
M_PROTOCOL == "Protocol error!"
M_RECV_RES == "Error while receiving response"
M_READ_STREAM == "Error while reading stream"
M_WRITE_STREAM == "Error while writing stream"

\* What parse_url leaves: its return value and the two members it fills.
UrlResult(r, h, p) == [ret |-> r, host |-> h, path |-> p]

\* A parse_url that ends the host at "/" only.
UrlSeparators_slash == {"/"}

\* The characters that end the host: strcspn(&url[7], ";/?:@=&").
UrlSeparators == {";", "/", "?", ":", "@", "=", "&"}

\* parse_url(url).  oom is the number of the allocation that fails: 1 is
\* the strndup of the host, 2 the strdup of the path.
parse_url(url, oom) ==
    LET rest == Drop(url, Min(7, Len(url)))
        host_ln == strcspn(rest, UrlSeparators)
    IN  IF strndup(url, 7) # S_HTTP_URL THEN UrlResult(-2, NULLPTR, NULLPTR)
        ELSE IF oom = 1 THEN UrlResult(-1, NULLPTR, NULLPTR)
        ELSE IF oom = 2 THEN UrlResult(-1, strndup(rest, host_ln), NULLPTR)
        ELSE UrlResult(0, strndup(rest, host_ln), Drop(rest, host_ln))

\* strrchr(s, c): the text from the last c on, NULLPTR without one.
strrchr(s, c) ==
    LET at == {i \in 1..Len(s) : s[i] = c}
    IN  IF at = {} THEN NULLPTR
        ELSE Drop(s, (CHOOSE i \in at : \A j \in at : j <= i) - 1)

\* The name of the file written under -d: what follows the last "/" of
\* the URL's path, index.html when nothing or a query does.
OutFile(path) ==
    LET file == strrchr(path, "/")
    IN  IF file = NULLPTR \/ Len(file) = 1 \/ file[2] = "?"
        THEN S_INDEX_HTML
        ELSE Tail(file)

\* strcpy(path, dir); strcat(path, "/"); strncat(path, file, strcspn(file, "?")).
OutPath(dir, path) ==
    LET file == OutFile(path)
    IN  dir \o <<"/">> \o strndup(file, strcspn(file, {"?"}))

\* The request of the client: GET of the URL's path with the Host header.
ClientRequest(url) ==
    [method |-> HTTP_GET, path |-> url.path,
     header |-> <<http_header(S_HOST, url.host)>>, body |-> NoBody]

\* How main ends: the exit status, the messages and the status text it
\* wrote to stderr, the bytes it wrote to the sink (stdout or the file of
\* -o or -d), and the bytes of the connection it left unread.
Exit(code, log, err, out, rest) ==
    [status |-> code, log |-> log, err |-> err, out |-> out, rest |-> rest]

\* fprintf(stderr, "%ld %s\n", code, description).
StatusText(code, description) ==
    FmtLong(code) \o <<SP>> \o description \o <<LF>>

\* The exit status of a process killed by SIGSEGV, as the shell reports it.
Crashed == 128 + 11

\* The copy of the body to the sink: fread of up to sizeof(buffer) bytes
\* and fwrite of the bytes read, until a read comes short.  k is the number
\* of the iteration; e.readerr and e.writeshort are the iterations in
\* which ferror is set and in which fwrite writes less than it was given.
RECURSIVE copy_body(_, _, _, _)
copy_body(s, e, k, out) ==
    LET rd == fread([data |-> s, pos |-> 0], 1, BufSize)
        wr == fwrite(rd.buffer, 1, rd.n)
        rest == Drop(s, rd.n)
        write_ln == IF e.writeshort = k THEN 0 ELSE wr.n
    IN  IF e.readerr = k
        THEN Exit(EXIT_FAILURE, <<M_READ_STREAM>>, <<>>, out, s)
        ELSE IF write_ln < rd.n
        THEN Exit(EXIT_FAILURE, <<M_WRITE_STREAM>>, <<>>, out, rest)
        ELSE IF rd.n < BufSize THEN Exit(0, <<>>, <<>>, out \o wr.out, rest)
        ELSE copy_body(rest, e, k + 1, out \o wr.out)

\* A client that copies the body whatever the status code is.
receive_copy(r, e) ==
    IF r.ret # 0
    THEN {Exit(EXIT_FAILURE, <<M_RECV_RES>>, <<>>, <<>>, r.rest)}
    ELSE {copy_body(r.rest, e, 1, <<>>)}

\* The ways main can end after recv_res has returned r.  Printing a NULL
\* description with %s is undefined: the text "(null)" or a crash.
receive(r, e) ==
    IF r.ret \in {E_HEAD, E_HEADERS}
    THEN {Exit(2, <<M_PROTOCOL>>, <<>>, <<>>, r.rest)}
    ELSE IF r.ret # 0
    THEN {Exit(EXIT_FAILURE, <<M_RECV_RES>>, <<>>, <<>>, r.rest)}
    ELSE IF r.code # 200 /\ r.description = NULLPTR
    THEN {Exit(3, <<>>, StatusText(r.code, S_NULL), <<>>, r.rest),
          Exit(Crashed, <<>>, <<>>, <<>>, r.rest)}
    ELSE IF r.code # 200
    THEN {Exit(3, <<>>, StatusText(r.code, r.description), <<>>, r.rest)}
    ELSE {copy_body(r.rest, e, 1, <<>>)}

-----------------------------------------------------------------------------
(* client.c: main *)

\* The state of the client's process: whether the connection is open, the
\* bytes sent on it, the paths opened for writing, the messages and the
\* status text written to stderr, and the bytes written to the sink.
NoClientConn ==
    [open |-> FALSE, sent |-> <<>>, opened |-> <<>>, log |-> <<>>,
     err |-> <<>>, out |-> <<>>]

ClientArgs(url, file, dir) ==
    [url |-> [url |-> url, host |-> NULLPTR, path |-> NULLPTR],
     file |-> file, dir |-> dir]

\* The environment of one run: which allocation of parse_url fails, the
\* errno of fopen on the output file (0 when it opens), whether the malloc
\* of the output path fails, how init_client_conn ends, the environments
\* of send_req and recv_res, and the iterations of the copy loop in which
\* the read and the write fail.
NoClientFault ==
    [urloom |-> 0, fopen |-> 0, pathoom |-> FALSE, connect |-> "ok",
     send |-> NoFault, recv |-> NoFault, readerr |-> 0, writeshort |-> 0]


M_CONNECT_GAI == "Failed to initiate connection: "

\* The part of main that opens the sink: fopen(args.file, "w") under -o,
\* the malloc of the path and fopen(path, "w") under -d.  The value is
\* whether main goes on, the paths opened and the message written.
open_out(a, e) ==
    IF a.file # NULLPTR
    THEN IF e.fopen # 0
         THEN [ok |-> FALSE, opened |-> <<>>, log |-> <<M_OPEN_FILE>>]
         ELSE [ok |-> TRUE, opened |-> <<a.file>>, log |-> <<>>]
    ELSE IF a.dir # NULLPTR
    THEN IF e.pathoom
         THEN [ok |-> FALSE, opened |-> <<>>, log |-> <<M_ALLOC>>]
         ELSE IF e.fopen # 0
         THEN [ok |-> FALSE, opened |-> <<>>, log |-> <<M_OPEN_FILE>>]
         ELSE [ok |-> TRUE, opened |-> <<OutPath(a.dir, a.url.path)>>,
               log |-> <<>>]
    ELSE [ok |-> TRUE, opened |-> <<>>, log |-> <<>>]

S_URL_A == S_HTTP_URL \o <<"h", "/", "a">>

S_URL_EXAMPLE ==
    S_HTTP_URL \o <<"e", "x", "a", "m", "p", "l", "e", ".", "c", "o", "m",
                    "/", "a", "/", "b", "?", "x", "=", "1">>

ClientUrls ==
    {S_URL_A, S_URL_EXAMPLE, S_HTTP_URL,
     S_HTTP_URL \o <<"h", "@", "x", ";", "y", "=", "z", "&", "w">>,
     S_HTTP_URL \o <<"h">>,
     S_HTTP_URL \o <<"h", "/", "d", "/">>,
     S_HTTP_URL \o <<"h", "/", "a", ".", "b", "?", "q">>,
     S_HTTP_URL \o <<"h", ":", "8", "0", "/", "x">>,
     S_HTTP_URL \o <<"h", "?", "x", "/", "y">>,
     <<"f", "t", "p", ":", "/", "/", "h", "/", "a">>,
     <<"h">>}

\* No sink option, -o o, -d d.
ClientSinks ==
    {[file |-> NULLPTR, dir |-> NULLPTR],
     [file |-> <<"o">>, dir |-> NULLPTR],
     [file |-> NULLPTR, dir |-> <<"d">>]}

ResponseOf(line, block, body) == line \o block \o CRLF \o body

S_NOT_FOUND_LINE ==
    S_HTTP11 \o <<SP, "4", "0", "4", SP>> \o S_NOT_FOUND \o CRLF

\* A header line of len bytes before its CRLF.
LongHeader(len) == <<"k", ":">> \o [i \in 1..(len - 2) |-> "a"] \o CRLF

\* What the server end of the connection sends before it closes.
ClientResponses ==
    {ResponseOf(GoodStatusLine, h, Data(n)) :
        h \in {<<>>, S_KV}, n \in {0, 3, BufSize, BufSize + 1}}
    \cup {ResponseOf(S_NOT_FOUND_LINE, h, b) :
        h \in {<<>>, S_KV}, b \in {<<>>, S_BODY}}
    \cup {ResponseOf(S_HTTP11 \o <<SP, "5", "0", "0", SP>> \o S_INTERNAL \o CRLF,
                     <<>>, S_BODY),
          ResponseOf(S_HTTP11 \o <<SP, "4", "0", "4", SP, CR, LF>>, <<>>, S_BODY),
          ResponseOf(S_HTTP11 \o <<SP, "4", "0", "4", NUL, CR, LF>>, <<>>, S_BODY),
          ResponseOf(S_HTTP11 \o <<SP, "2", "0", "0", CR, LF>>, <<>>, S_BODY),
          ResponseOf(S_HTTP10 \o <<SP, "2", "0", "0", SP>> \o S_OK \o CRLF,
                     <<>>, S_BODY),
          ResponseOf(S_HTTP11 \o <<SP, "2", "x", "0", SP>> \o S_OK \o CRLF,
                     <<>>, S_BODY),
          ResponseOf(GoodStatusLine, S_GARBAGE, S_BODY),
          ResponseOf(GoodStatusLine, LongHeader(GetlineMin + 10), S_BODY),
          GoodStatusLine, GoodStatusLine \o S_KV, S_NOT_FOUND_LINE \o S_KV,
          <<"H", "T", "T", "P">>, CRLF, <<>>}

\* One fault per run.
ClientFaults ==
    {[NoClientFault EXCEPT !.urloom = k] : k \in 1..2}
    \cup {[NoClientFault EXCEPT !.fopen = x] : x \in {EACCES}}
    \cup {[NoClientFault EXCEPT !.pathoom = TRUE]}
    \cup {[NoClientFault EXCEPT !.connect = c] : c \in {"gai", "sys"}}
    \cup {[NoClientFault EXCEPT !.send = f] :
             f \in {[NoFault EXCEPT !.wfail = k] : k \in 1..3}}
    \cup {[NoClientFault EXCEPT !.recv = f] :
             f \in {[NoFault EXCEPT !.oom = k] : k \in 1..2}
                   \cup {[NoFault EXCEPT !.rdfail = k, !.errno = EIO] : k \in 1..2}}
    \cup {[NoClientFault EXCEPT !.readerr = k] : k \in 1..2}
    \cup {[NoClientFault EXCEPT !.writeshort = k] : k \in 1..2}

InitClient ==
    /\ pc = "parse_url"
    /\ \/ /\ \E u \in ClientUrls, o \in ClientSinks :
                args = ClientArgs(u, o.file, o.dir)
          /\ wire \in {ResponseOf(GoodStatusLine, S_KV, Data(3)),
                       ResponseOf(S_NOT_FOUND_LINE, <<>>, S_BODY)}
          /\ env = NoClientFault
       \/ /\ \E o \in ClientSinks : args = ClientArgs(S_URL_A, o.file, o.dir)
          /\ wire \in ClientResponses
          /\ env = NoClientFault
       \/ /\ \E o \in ClientSinks : args = ClientArgs(S_URL_A, o.file, o.dir)
          /\ wire \in {ResponseOf(GoodStatusLine, S_KV, Data(BufSize + 1)),
                       ResponseOf(S_NOT_FOUND_LINE, S_KV, S_BODY),
                       ResponseOf(S_HTTP11 \o <<SP, "4", "0", "4", NUL, CR, LF>>,
                                  <<>>, S_BODY)}
          /\ env \in ClientFaults
    /\ req = NoReq /\ res = NoRes
    /\ stream = <<>>
    /\ ret = NoRet
    /\ conn = NoClientConn
    /\ pending_signal = 0 /\ served = 0 /\ socket = "none"
    /\ status = NoStatus
    /\ heap = NoHeap

\* main ends with the exit status code after writing the messages log.
ClientExit(code, log) ==
    /\ pc' = "exited"
    /\ status' = code
    /\ conn' = [conn EXCEPT !.open = FALSE, !.log = conn.log \o log]

\* parse_url(&args.url) and the test of its result.
ParseUrl ==
    /\ pc = "parse_url"
    /\ LET u == parse_url(args.url.url, env.urloom)
       IN  /\ args' = [args EXCEPT !.url.host = u.host, !.url.path = u.path]
           /\ IF u.ret = 0
              THEN pc' = "open_out" /\ UNCHANGED <<status, conn>>
              ELSE ClientExit(EXIT_FAILURE,
                       <<IF u.ret = -2 THEN M_INVALID_URL ELSE M_PARSE_URL>>)
    /\ UNCHANGED <<req, res, env, stream, wire, ret, pending_signal, served,
                   socket, heap>>

\* The opening of the sink.
OpenOutput ==
    /\ pc = "open_out"
    /\ LET o == open_out(args, env)
       IN  IF o.ok
           THEN /\ pc' = "connect"
                /\ conn' = [conn EXCEPT !.opened = o.opened]
                /\ UNCHANGED status
           ELSE ClientExit(EXIT_FAILURE, o.log)
    /\ UNCHANGED <<req, res, env, stream, wire, ret, pending_signal, served,
                   args, socket, heap>>

\* init_client_conn(args.url.host, args.port, &err) and the test of its
\* result.
Connect ==
    /\ pc = "connect"
    /\ IF env.connect = "ok"
       THEN /\ pc' = "client_send"
            /\ conn' = [conn EXCEPT !.open = TRUE]
            /\ UNCHANGED status
       ELSE ClientExit(EXIT_FAILURE,
                <<IF env.connect = "gai" THEN M_CONNECT_GAI ELSE M_CONNECT>>)
    /\ UNCHANGED <<req, res, env, stream, wire, ret, pending_signal, served,
                   args, socket, heap>>

\* send_req(stream, &req) and the test of its result.
SendRequest ==
    /\ pc = "client_send"
    /\ req' = ClientRequest(args.url)
    /\ LET r == send_req(ClientRequest(args.url), env.send)
       IN  IF r.ret = -1
           THEN /\ ClientExit(EXIT_FAILURE, <<M_SEND_REQ>>)
                /\ UNCHANGED stream
           ELSE /\ pc' = "client_wait"
                /\ conn' = [conn EXCEPT !.sent = r.out]
                /\ UNCHANGED <<status, stream>>
    /\ UNCHANGED <<res, env, wire, ret, pending_signal, served, args, socket, heap>>

\* The other end of the connection answers with the bytes of wire and
\* closes.
PeerAnswers ==
    /\ pc = "client_wait"
    /\ socket = "none"
    /\ stream' = wire
    /\ pc' = "client_recv"
    /\ UNCHANGED <<req, res, env, wire, ret, pending_signal, conn, served, args,
                   socket, status, heap>>

\* free_http_res(&res) on the heap hp that recv_res left: main calls it
\* when it returns 3 or 0.  free(NULL) of a description that is NULL does
\* nothing.
client_free(hp, r, x) ==
    IF r.ret # 0 \/ x.status \notin {0, 3} THEN hp
    ELSE IF r.description = NULLPTR THEN free_headers(hp, 0, Len(r.header))
    ELSE free_http_res(hp, Len(r.header))

\* The end of main after recv_res has returned r and left the heap hp: one
\* of the ways of receive, or the abort of the process when free was
\* called on a block that was not live.
ReceiveEnd(r, hp) ==
    /\ ret' = r
    /\ \/ \E x \in receive(r, env) :
             /\ pc' = "exited"
             /\ status' = x.status
             /\ stream' = x.rest
             /\ conn' = [conn EXCEPT !.open = FALSE,
                                     !.log = conn.log \o x.log,
                                     !.err = x.err, !.out = x.out]
             /\ heap' = client_free(hp, r, x)
       \/ /\ hp.bad # {}
          /\ pc' = "exited"
          /\ status' = Aborted
          /\ stream' = r.rest
          /\ heap' = hp
          /\ UNCHANGED conn

\* recv_res(stream, &res) and the rest of main.
Receive ==
    /\ pc = "client_recv"
    /\ \E moved \in BOOLEAN :
          ReceiveEnd(recv_res(stream, env.recv),
                     recv_res_heap(stream, env.recv, moved))
    /\ UNCHANGED <<req, res, env, wire, pending_signal, served, args, socket>>

NextClient ==
    \/ ParseUrl
    \/ OpenOutput
    \/ Connect
    \/ SendRequest
    \/ PeerAnswers
    \/ Receive

SpecClient == InitClient /\ [][NextClient]_vars

-----------------------------------------------------------------------------
(* Properties of the client *)

\* The client has called recv_res and has exited.
Received == pc = "exited" /\ IsResResult

\* The response does not begin with "HTTP/1.1 ".
BadStatusLine == wire # <<>> /\ ~StartsWith(wire, S_HTTP11 \o <<SP>>)

\* The first line after a good status line is not blank and has no colon.
BadHeaderLine ==
    /\ HeadAccepted
    /\ HeaderLinesOf(wire) # <<>>
    /\ TextNoColon(HeaderLinesOf(wire)[1])

\* C19: the client exits 2 for every decode failure of the response (a
\* malformed status line, a malformed header line, a response that ends
\* before the blank line), 3 when the response decoded has a status code
\* other than 200, 1 on an invalid URL, a connection failure or any other
\* I/O error, and 0 only after a 200 response whose body went to the sink.
C19_ExitCodes ==
    pc = "exited" =>
        /\ (IsResResult /\ FaultFree(env.recv)
                /\ (BadStatusLine \/ BadHeaderLine \/ TruncatedHeaders))
               => status = 2
        /\ (IsResResult /\ ret.ret = 0 /\ ret.code # 200
                /\ ret.description # NULLPTR)
               => status = 3
        /\ ~IsResResult => status = EXIT_FAILURE
        /\ (IsResResult /\ ~FaultFree(env.recv) /\ ret.ret = E_FAIL)
               => status = EXIT_FAILURE
        /\ status = 0 =>
               /\ IsResResult /\ ret.ret = 0 /\ ret.code = 200
               /\ ret.rest = conn.out \o stream

C21_UrlParsing ==
    (pc # "parse_url" /\ env.urloom = 0) =>
        LET url == args.url.url
            host == args.url.host
            path == args.url.path
            stop == {";", "/", "?", ":", "@", "=", "&"}
        IN  IF ~StartsWith(url, <<"h", "t", "t", "p", ":", "/", "/">>)
            THEN /\ parse_url(url, 0).ret = -2
                 /\ pc = "exited" /\ conn.log = <<M_INVALID_URL>>
            ELSE /\ parse_url(url, 0).ret = 0
                 /\ host # NULLPTR /\ path # NULLPTR
                 /\ ~Has(host, stop)
                 /\ path = <<>> \/ path[1] \in stop
                 /\ host \o path = Drop(url, 7)
                 /\ pc = "exited" => conn.log # <<M_INVALID_URL>>

\* "http://example.com/a/b?x=1" has been parsed into host "example.com"
\* and path "/a/b?x=1".
C21_Witness ==
    /\ pc = "open_out"
    /\ args.url.url = S_URL_EXAMPLE
    /\ args.url.host = <<"e", "x", "a", "m", "p", "l", "e", ".", "c", "o", "m">>
    /\ args.url.path = <<"/", "a", "/", "b", "?", "x", "=", "1">>

-----------------------------------------------------------------------------
(* recv_req and recv_res on messages with many and with long header lines *)

MaxHeaderLines == 9   \* header lines of a message
MaxAllocFault == 8    \* the number of the allocation call that fails

\* k header lines, line number long (if any) too long for the buffer that
\* getline allocates for a short start line.
RECURSIVE HeapLines(_, _)
HeapLines(k, long) ==
    IF k = 0 THEN <<>>
    ELSE HeapLines(k - 1, long)
             \o (IF k = long THEN LongHeader(GetlineMin + 10) ELSE S_KV)

\* Start lines shorter and longer than that buffer.
HeapStartLines ==
    {[pc |-> "recv_req", line |-> GoodRequestLine],
     [pc |-> "recv_req",
      line |-> RequestLineOf(HTTP_GET, <<"/">> \o [i \in 1..(2 * GetlineMin) |-> "p"])],
     [pc |-> "recv_res", line |-> GoodStatusLine],
     [pc |-> "recv_res",
      line |-> S_HTTP11 \o <<SP, "2", "0", "0", SP>>
                   \o [i \in 1..(2 * GetlineMin) |-> "d"] \o CRLF]}

HeapFaults ==
    {NoFault}
        \cup {[NoFault EXCEPT !.oom = k] : k \in 1..MaxAllocFault}
        \cup {[NoFault EXCEPT !.rdfail = k, !.errno = EIO] : k \in 2..3}

InitHeap ==
    /\ \E st \in HeapStartLines, k \in 0..MaxHeaderLines, long \in 0..2,
          ending \in {CRLF \o S_BODY, <<>>, S_GARBAGE} :
          /\ long <= k
          /\ pc = st.pc
          /\ stream = st.line \o HeapLines(k, long) \o ending
    /\ env \in HeapFaults
    /\ wire = stream
    /\ req = NoReq /\ res = NoRes
    /\ ret = NoRet
    /\ ServerIdle

SpecHeap == InitHeap /\ [][NextParse]_vars

-----------------------------------------------------------------------------
(* Properties of the heap *)

\* The blocks of the message: everything but the line buffer and the
\* blocks of the server's loop.
MessageKinds == {"path", "description", "header", "key", "value"}
MessageBlocks(h) == {b \in h.live : b[1] \in MessageKinds}

\* C22: when recv_req or recv_res returns an error, no block allocated for
\* the message is still allocated: the path or description, the header
\* array, and the key and value of every header already stored are freed.
C22_ErrorFreesMessage ==
    (pc = "done" /\ ret.ret # 0) => MessageBlocks(heap) = {}

\* The blocks of the line buffer still allocated.
BufBlocks(h) == {b \in h.live : b[1] = "buf"}

\* C26: the line buffer of recv_req and recv_res is freed exactly once per
\* call, through its current address: when the call returns, no free has
\* been given a block that was not allocated any more (freed before, or
\* moved by realloc), and no line buffer is left allocated.
C26_LineBufferFreedOnce ==
    pc = "done" => (heap.bad = {} /\ BufBlocks(heap) = {})

\* C27: every store header[i] of extract_header is made with i smaller
\* than the number of slots allocated (2 at first, 2 * i after the realloc
\* at each power of two i >= 2), and the header count returned on success
\* is the number of entries stored.
C27_StoreInBounds ==
    pc = "done" =>
        /\ heap.oob = {}
        /\ heap.stored <= heap.slots
        /\ heap.stored \in 1..2 => heap.slots \in {2, 4}
        /\ heap.slots <= Max(2, 2 * heap.stored)
        /\ ret.ret = 0 => Len(ret.header) = heap.stored

\* Nine headers have been stored in an array that grew to sixteen slots.
C27_Witness ==
    /\ pc = "done" /\ ret.ret = 0
    /\ Len(ret.header) = 9 /\ heap.stored = 9 /\ heap.slots = 16

\* C23: at every call of accept after the first, everything the earlier
\* iterations allocated has been released, and released once: the
\* connection, the file, the path buffer and the decoded request with its
\* header array, keys and values; nothing was freed twice.
C23_ReleasedAtAccept ==
    (pc = "accept" /\ served > 0) => (heap.live = {} /\ heap.bad = {})

\* C24: a successful recv_req or recv_res has consumed the start line and
\* the lines after it up to and including the first blank line, and not
\* one byte more: what follows the blank line is what the stream holds
\* for the next read.
C24_BodyLeftUnread ==
    (pc = "done" /\ ret.ret = 0) =>
        LET ls == SplitLines(wire)
            j == FirstIndex(ls, IsBlank, 1)
        IN  /\ j \in 2..Len(ls)
            /\ Len(ret.header) = j - 2
            /\ stream = Concat(SubSeq(ls, j + 1, Len(ls)))
            /\ wire = Concat(SubSeq(ls, 1, j)) \o stream
            /\ ret.rest = stream

\* A request with one header line has been decoded and the line after
\* its blank line is still in the stream.
C24_Witness ==
    /\ pc = "done" /\ ret.ret = 0 /\ IsReqResult
    /\ Len(ret.header) = 1
    /\ stream = <<"k", ":", "v">> \o CRLF

-----------------------------------------------------------------------------
(* client.c and server.c: the client's GET answered by the server          *)

\* The sizes of the file the server serves.
FileLens == {0, 1, 3, BufSize - 1, BufSize, BufSize + 1, 2 * BufSize}

ExchangeFiles ==
    {[errno |-> 0, data |-> Data(n)] : n \in FileLens}
        \cup {[errno |-> x, data |-> <<>>] : x \in {ENOENT, EACCES}}

\* A host name whose Host line is longer than the buffer getline allocates
\* for the request line.
S_LONG_HOST == [i \in 1..GetlineMin |-> "h"]

ExchangeUrls ==
    {S_URL_A,
     S_HTTP_URL \o S_LONG_HOST \o <<"/", "a">>,
     S_HTTP_URL \o <<"h">>,
     S_HTTP_URL \o <<"h", "/", "d", "/">>,
     S_HTTP_URL \o <<"h", "/", "a", ".", "c", "s", "s", "?", "v", "=", "1">>}

\* The server listens with its arguments in args and the environment of its
\* next connection in env.server; the client starts.
InitExchange ==
    /\ pc = "parse_url"
    /\ \E u \in ExchangeUrls, o \in ClientSinks, a \in ArgsSet :
           args = ClientArgs(u, o.file, o.dir) @@ a
    /\ \E file \in ExchangeFiles :
           env = NoClientFault @@ ("server" :> ServerEnv(NoServerFault, file))
    /\ wire = <<>> /\ stream = <<>>
    /\ req = NoReq /\ res = NoRes
    /\ ret = NoRet
    /\ conn = NoClientConn
    /\ pending_signal = 0 /\ served = 0
    /\ socket = "listening"
    /\ status = NoStatus
    /\ heap = NoHeap

\* The bytes of the responses sent, in order.
RECURSIVE SentBytes(_, _)
SentBytes(sent, i) ==
    IF i > Len(sent) THEN <<>> ELSE sent[i].out \o SentBytes(sent, i + 1)

\* The iteration after recv_req and the responses have been computed: the
\* client reads what the server wrote before it closed the connection.
\* Or recv_req has called free on a block that was not live and the
\* server's process is aborted before it answers: the client reads the end
\* of the stream.
ServerAnswersEnd(x, hp) ==
    \/ /\ wire' = SentBytes(x.sent, 1)
       /\ stream' = wire'
       /\ heap' = serve_heap(hp, x, env.server.fopen)
       /\ UNCHANGED socket
    \/ /\ hp.bad # {}
       /\ wire' = <<>>
       /\ stream' = <<>>
       /\ heap' = hp
       /\ socket' = "closed"

\* One iteration of the server's accept loop for the connection of the
\* client: accept_client_conn, recv_req of the bytes the client sent, the
\* response, close_conn.
ServerAnswers ==
    /\ pc = "client_wait"
    /\ socket = "listening"
    /\ \E moved \in BOOLEAN :
          ServerAnswersEnd(
              serve(conn.sent, env.server, args),
              Merge(Malloc(NoHeap, Block("connection", 0)),
                    recv_req_heap(conn.sent, RecvEnv(env.server), moved)))
    /\ served' = served + 1
    /\ pc' = "client_recv"
    /\ UNCHANGED <<req, res, env, ret, pending_signal, conn, args, status>>

NextExchange ==
    \/ ParseUrl
    \/ OpenOutput
    \/ Connect
    \/ SendRequest
    \/ ServerAnswers
    \/ Receive

SpecExchange == InitExchange /\ [][NextExchange]_vars

-----------------------------------------------------------------------------
(* Properties of the exchange *)

\* Whether the bytes p occur in the bytes s.
Occurs(p, s) ==
    \E i \in 1..(Len(s) - Len(p) + 1) : SubSeq(s, i, i + Len(p) - 1) = p

\* C25: when the file the server resolves the client's URL to exists with N
\* bytes and nothing fails, the client decodes the status 200, writes
\* exactly the N bytes of the file to its sink and exits with 0, whether N
\* is 0, a multiple of 1024 or neither; the names of the Date,
\* Content-Length and Connection headers never reach the sink.
C25_EndToEnd ==
    (pc = "exited" /\ env.server.fopen.errno = 0) =>
        /\ status = 0
        /\ ret.ret = 0 /\ ret.code = 200
        /\ conn.out = env.server.fopen.data
        /\ Len(conn.out) \in FileLens
        /\ ret.rest = env.server.fopen.data
        /\ stream = <<>>
        /\ \A name \in {S_DATE, S_CONTENT_LENGTH, S_CONNECTION} :
               ~Occurs(name, conn.out)

=============================================================================
